---- MODULE Spec2Model ----
(***************************************************************************)
(* A model of the loggers package.                                          *)
(*                                                                          *)
(* loggers.handler_controller.HandlerController: the class-level registry   *)
(* of logging handlers (name -> handler object), the run context (run       *)
(* directory, datetime stamp, JSON file path) and the handler objects the   *)
(* registry creates.  loggers.configure_logging: the handlers of the root   *)
(* logger, and the logging calls that go through them into the log files.   *)
(* loggers.json_log_parser.JSONLogParser: load and the queries on the       *)
(* records.                                                                 *)
(*                                                                          *)
(* Strings that the code builds by concatenation are modelled structurally: *)
(* the empty string "" is the empty tuple, a datetime stamp                 *)
(* "<date>_<time>" is the pair <<date, time>>, a directory                  *)
(* os.path.join(a, b, c) is the tuple <<a, b, c>>, and a file path is the   *)
(* record of its directory and the parts of its file name.  Handler objects *)
(* live in heap; an object's identity is its index in heap.  A file is the  *)
(* sequence of its lines; a line is the record of what its text holds (a    *)
(* JSON object with its members, readable text, white space, ...), which    *)
(* json.loads turns into a Python value or rejects.                         *)
(***************************************************************************)
EXTENDS Integers, Sequences, FiniteSets, TLC

\* ---------------------------------------------------------------- bounds
\* Number of handler objects the program may create in one behaviour.
MaxHandlers == 4
\* The wall clock runs from 0 to MaxClock seconds.
MaxClock == 1
\* Length of a calendar day in clock seconds (scaled down).
SecondsPerDay == 2
\* Number of threads that construct a HandlerController concurrently.
NumThreads == 2
\* Number of logging calls each thread makes.
MaxEvents == 2
\* Number of I/O operations that fail in one behaviour.
MaxFaults == 1
\* Number of lines of a log file.
MaxLines == 3
\* Number of LoggingHandlerController instances made in one behaviour.
MaxInstances == 3

\* ---------------------------------------------------------------- values
\* Values of the run_name argument of add_file_handler: the run name "main"
\* that __new__ registers itself, a further run name, and a run name that
\* collides with the key of the shared JSON handler.
RunNames == {"main", "file_2", "json"}

\* Keys of the registry: the run names and the keys "json" and "stream" that
\* __new__ registers.
Names == RunNames \cup {"json", "stream"}

LOG_FILE_DEFAULT_DIRECTORY == "data/logs"

\* Values of the log_directory argument of HandlerController(...).
LogDirs == {LOG_FILE_DEFAULT_DIRECTORY, "other/logs"}

\* The empty string.
NoStr == <<>>

\* The value None, and the state of a class attribute that is only annotated
\* (reading it raises AttributeError).  Handler objects are 1, 2, ...
None == 0
Unset == -1

\* The registry dict with no entry.
EmptyDict == [n \in {} |-> None]

VARIABLES
    handlers,            \* HandlerController.handlers: name -> handler object
    log_datetime_stamp,  \* HandlerController.log_datetime_stamp
    run_directory,       \* HandlerController.run_directory
    json_file_path,      \* HandlerController.json_file_path
    json_file_handler,   \* HandlerController.json_file_handler
    stream_handler,      \* HandlerController.stream_handler
    _initialized,        \* HandlerController._initialized
    heap,                \* the handler objects created so far
    clock,               \* datetime.now(), in seconds
    lastOp,              \* the last call made on the class and its outcome
    thr,                 \* per thread: its position in __new__ and its locals
    files,               \* the file system: path -> the lines of the file
    attached,            \* the handlers list of the root logger
    logger_level,        \* the level set on each logger, NOTSET when none is
    lock,                \* the handler objects whose lock a thread holds
    emitters,            \* per thread: its position in a logging call
    parser,              \* the JSONLogParser object
    faults,              \* the number of I/O operations that have failed
    LoggingHandlerController,  \* the class attributes of logger_configs.LoggingHandlerController
    Logger,              \* the class attributes of logger.Logger and its instances
    logger_handlers      \* the handlers list of each named logger of the logging module

cls == <<handlers, log_datetime_stamp, run_directory, json_file_path,
         json_file_handler, stream_handler, _initialized>>
vars == <<handlers, log_datetime_stamp, run_directory, json_file_path,
          json_file_handler, stream_handler, _initialized, heap, clock, lastOp, thr,
          files, attached, logger_level, lock, emitters, parser, faults,
          LoggingHandlerController, Logger, logger_handlers>>
\* The state of the classes of logger_configs and logger.
legacy == <<LoggingHandlerController, Logger, logger_handlers>>
\* The state of the logging calls and of the parser, apart from the root
\* logger's handlers list.
io == <<files, lock, emitters, parser, faults>>

Range(f) == {f[x] : x \in DOMAIN f}

\* ---------------------------------------------------------------- utils.py
create_datestamp(now) == now \div SecondsPerDay

create_timestamp(now) == now % SecondsPerDay

create_log_datetime_stamp(now) == <<create_datestamp(now), create_timestamp(now)>>

\* ---------------------------------------------------------------- handler objects
\* The empty path "": json_file_path before set-up, and the stream handler,
\* which has no file.
NoPath == [dir |-> NoStr, stamp |-> NoStr, name |-> "", ext |-> ""]

\* os.path.join(run_directory, f"{log_datetime_stamp}.json.log")
JsonFilePath(dir, stamp) ==
    [dir |-> dir, stamp |-> stamp, name |-> "", ext |-> ".json.log"]

\* os.path.join(run_directory, f"{log_datetime_stamp}_{run_name}.log")
ReadableFilePath(dir, stamp, run_name) ==
    [dir |-> dir, stamp |-> stamp, name |-> run_name, ext |-> ".log"]

\* logging.FileHandler(path) opens the file at once; logging.StreamHandler()
\* opens nothing.  A handler stays open until flush() and close() are called
\* on it; the class calls them only on the handlers it has registered.
FileHandler(kind, path) == [kind |-> kind, path |-> path, open |-> TRUE]

StreamHandler == [kind |-> "stream", path |-> NoPath, open |-> TRUE]

\* flush() and close() called on every handler object, registered or not.
CloseAll_everything(hp, hs) ==
    [i \in DOMAIN hp |-> [hp[i] EXCEPT !.open = FALSE]]

\* open(path, mode) with the file opened for writing whatever the mode: the
\* file is cut to nothing.
OpenFile_truncating(fs, path, mode) ==
    [q \in DOMAIN fs \cup {path} |-> IF q = path THEN <<>> ELSE fs[q]]

\* open(path, mode), the open of logging.FileHandler(path, mode='a'), on the
\* file system fs: mode 'w' cuts the file to nothing, mode 'a' leaves the
\* lines it holds (a file that is not there yet has none).
OpenFile(fs, path, mode) ==
    IF mode = "w"
    THEN [q \in DOMAIN fs \cup {path} |-> IF q = path THEN <<>> ELSE fs[q]]
    ELSE fs

\* handler.flush(); handler.close() on each object of hs.
CloseAll(hp, hs) ==
    [i \in DOMAIN hp |-> IF i \in hs THEN [hp[i] EXCEPT !.open = FALSE] ELSE hp[i]]

\* ---------------------------------------------------------------- registry
\* HandlerController._generate_program_run_folder: (stamp, run directory).
_generate_program_run_folder(log_directory, now) ==
    [stamp |-> create_log_datetime_stamp(now),
     dir   |-> <<log_directory, create_datestamp(now), create_log_datetime_stamp(now)>>]

\* _add_handler without the membership test: a second add replaces the entry.
_add_handler_overwrite(hs, name, handler) ==
    [exc |-> "", handlers |-> (name :> handler) @@ hs]

\* _add_handler that ignores a duplicate name instead of raising.
_add_handler_silent(hs, name, handler) ==
    IF name \notin DOMAIN hs
    THEN [exc |-> "", handlers |-> (name :> handler) @@ hs]
    ELSE [exc |-> "", handlers |-> hs]

\* HandlerController._add_handler on the dict hs: the outcome and the dict.
_add_handler(hs, name, handler) ==
    IF name \notin DOMAIN hs
    THEN [exc |-> "", handlers |-> (name :> handler) @@ hs]
    ELSE [exc |-> "KeyError", handlers |-> hs]

Op(op, arg, exc, ret) == [op |-> op, arg |-> arg, exc |-> exc, ret |-> ret]

Threads == 1..NumThreads

\* A thread that has not called HandlerController(...) yet.
Idle == [pc |-> "idle", log_directory |-> "", run |-> [stamp |-> NoStr, dir |-> NoStr],
         path |-> NoPath, handler |-> None, name |-> ""]

\* A file system with no log file.
NoFiles == [p \in {} |-> <<>>]

\* No JSONLogParser object has been made.
NoParser == [file_path |-> NoPath]

\* The levels of the logging module that the handlers and the logging calls
\* use, with PERFORMANCE_LEVEL_NUM of utils between DEBUG and INFO.
LevelNo ==
    [NOTSET |-> 0, DEBUG |-> 10, PERFORMANCE |-> 15, INFO |-> 20, WARNING |-> 30,
     ERROR |-> 40]

\* The loggers of the runs: logging.getLogger(__name__) of the module that
\* configures logging, and the logger made for a second run name.
LoggerOfRun == [main |-> "test_logger", file_2 |-> "test_logger_2"]

\* The loggers as the logging module makes them: the root logger at WARNING,
\* any other logger without a level of its own.
NoLevels ==
    [name \in {"root"} \cup Range(LoggerOfRun) |->
        IF name = "root" THEN LevelNo.WARNING ELSE LevelNo.NOTSET]

\* A thread that is not inside a logging call.
NotLogging == [pc |-> "idle", record |-> None, i |-> 0, raised |-> "", n |-> 0,
               failed |-> {}]

\* The names given to Logger(...), which are the names of its loggers in the
\* logging module.
LoggerNames == {"test_1", "test_2"}

\* The classes of logger_configs and logger after import: the attributes the
\* body of LoggingHandlerController binds, with no instance made; Logger with
\* no instance and _run_id not bound yet (nothing reads it before the first
\* Logger(...) binds it); loggers without handlers.
LegacyInit ==
    /\ LoggingHandlerController =
          [_run_names |-> EmptyDict, _daily_log_stamp |-> NoStr,
           _log_datetime_stamp |-> NoStr, _run_directory |-> NoStr,
           _json_file_path |-> NoPath, _json_file_handler |-> None,
           _stream_handler |-> None, _initialized |-> FALSE, instances |-> <<>>]
    /\ Logger = [_instances |-> EmptyDict, _run_id |-> NoStr, objects |-> <<>>]
    /\ logger_handlers = [name \in LoggerNames |-> <<>>]

Init ==
    /\ handlers = EmptyDict
    /\ log_datetime_stamp = NoStr
    /\ run_directory = NoStr
    /\ json_file_path = NoPath
    /\ json_file_handler = Unset
    /\ stream_handler = Unset
    /\ _initialized = FALSE
    /\ heap = <<>>
    /\ clock = 0
    /\ lastOp = Op("import", "", "", None)
    /\ thr = [t \in Threads |-> Idle]
    /\ files = NoFiles
    /\ attached = <<>>
    /\ logger_level = NoLevels
    /\ lock = {}
    /\ emitters = [t \in Threads |-> NotLogging]
    /\ parser = NoParser
    /\ faults = 0
    /\ LegacyInit

\* A second passes.
Tick ==
    /\ UNCHANGED <<io, attached, logger_level, legacy>>
    /\ clock < MaxClock
    /\ clock' = clock + 1
    /\ UNCHANGED <<cls, heap, lastOp, thr>>

\* add_file_handler that also marks the class initialized.
add_file_handler_marks(run_name) ==
    /\ UNCHANGED <<lock, emitters, parser, faults, attached, logger_level, legacy>>
    /\ Len(heap) < MaxHandlers
    /\ LET path == ReadableFilePath(run_directory, log_datetime_stamp, run_name)
           h    == Len(heap) + 1
           r    == _add_handler(handlers, run_name, h)
       IN  /\ heap' = Append(heap, FileHandler("file", path))
           /\ files' = OpenFile(files, path, "a")
           /\ handlers' = r.handlers
           /\ _initialized' = (_initialized \/ r.exc = "")
           /\ lastOp' = Op("add_file_handler", run_name, r.exc, None)
    /\ UNCHANGED <<log_datetime_stamp, run_directory, json_file_path,
                   json_file_handler, stream_handler, clock, thr>>

\* HandlerController.add_file_handler(run_name)
add_file_handler(run_name) ==
    /\ UNCHANGED <<lock, emitters, parser, faults, attached, logger_level, legacy>>
    /\ Len(heap) < MaxHandlers
    /\ LET path == ReadableFilePath(run_directory, log_datetime_stamp, run_name)
           h    == Len(heap) + 1
           r    == _add_handler(handlers, run_name, h)
       IN  /\ heap' = Append(heap, FileHandler("file", path))
           /\ files' = OpenFile(files, path, "a")
           /\ handlers' = r.handlers
           /\ lastOp' = Op("add_file_handler", run_name, r.exc, None)
    /\ UNCHANGED <<log_datetime_stamp, run_directory, json_file_path,
                   json_file_handler, stream_handler, _initialized, clock, thr>>

\* The closing makedirs of __new__ with the directory rebuilt from the
\* argument and stored, instead of the stored directory being reused.
MakeRunDirectory_rebuilt(log_directory) ==
    /\ run_directory' = _generate_program_run_folder(log_directory, clock).dir
    /\ UNCHANGED <<handlers, log_datetime_stamp, json_file_path, json_file_handler,
                   stream_handler, _initialized, heap>>

\* os.makedirs(cls.run_directory, exist_ok=True), the statement that closes
\* __new__: the directory of the run exists already, nothing changes.
MakeRunDirectory(log_directory) == UNCHANGED <<cls, heap>>

\* if cls._initialized == False, the test that opens HandlerController.__new__
NeedsInitialization(flag) == flag = FALSE

\* The handler objects the set-up of __new__ makes on the dict hs: the JSON and
\* the stream handler, and the "main" file handler when both were registered.
NewObjects(hs) == IF "json" \in DOMAIN hs \/ "stream" \in DOMAIN hs THEN 2 ELSE 3

\* HandlerController(log_directory): __new__ followed by __init__, in a
\* behaviour that creates at most limit handler objects.  The first branch is
\* the set-up of an uninitialized class; it stops at the first _add_handler
\* that raises and keeps what was assigned up to there.
NewWithin(log_directory, limit) ==
    IF NeedsInitialization(_initialized)
    THEN /\ Len(heap) + NewObjects(handlers) <= limit
         /\ LET run   == _generate_program_run_folder(log_directory, clock)
                jpath == JsonFilePath(run.dir, run.stamp)
                jh    == Len(heap) + 1
                sh    == Len(heap) + 2
                fh    == Len(heap) + 3
                heap2 == heap \o <<FileHandler("json", jpath), StreamHandler>>
                heap3 == Append(heap2,
                            FileHandler("file", ReadableFilePath(run.dir, run.stamp, "main")))
                a1    == _add_handler(handlers, "json", jh)
                a2    == _add_handler(a1.handlers, "stream", sh)
                a3    == _add_handler(a2.handlers, "main", fh)
            IN  /\ log_datetime_stamp' = run.stamp
                /\ run_directory' = run.dir
                /\ json_file_path' = jpath
                /\ json_file_handler' = jh
                /\ stream_handler' = sh
                /\ IF a1.exc # ""
                   THEN /\ handlers' = a1.handlers
                        /\ heap' = heap2
                        /\ _initialized' = _initialized
                        /\ lastOp' = Op("__new__", log_directory, a1.exc, None)
                   ELSE IF a2.exc # ""
                   THEN /\ handlers' = a2.handlers
                        /\ heap' = heap2
                        /\ _initialized' = _initialized
                        /\ lastOp' = Op("__new__", log_directory, a2.exc, None)
                   ELSE IF a3.exc # ""
                   THEN /\ handlers' = a3.handlers
                        /\ heap' = heap3
                        /\ _initialized' = _initialized
                        /\ lastOp' = Op("__new__", log_directory, a3.exc, None)
                   ELSE /\ handlers' = a3.handlers
                        /\ heap' = heap3
                        /\ _initialized' = TRUE
                        /\ lastOp' = Op("__new__", log_directory, "", None)
         /\ UNCHANGED <<clock, thr, io>>
    ELSE /\ MakeRunDirectory(log_directory)
         /\ lastOp' = Op("__new__", log_directory, "", None)
         /\ UNCHANGED <<clock, thr, io>>

\* HandlerController(log_directory)
__new__(log_directory) == NewWithin(log_directory, MaxHandlers)

\* HandlerController(log_directory) when a directory or a file cannot be
\* made.  In the set-up the OSError leaves os.makedirs of
\* _generate_program_run_folder (at = "makedirs", nothing is assigned yet),
\* logging.FileHandler of _create_json_log_handler (at = "json", the stamp and
\* the directory are assigned) or logging.FileHandler of
\* add_file_handler("main") (at = "main", the JSON and the stream handler are
\* made, assigned and registered); on an initialized class it leaves the
\* closing os.makedirs.  _initialized is never reached.
NewFails(log_directory, at) ==
    /\ faults < MaxFaults
    /\ faults' = faults + 1
    /\ lastOp' = Op("__new__", log_directory, "OSError", None)
    /\ LET run   == _generate_program_run_folder(log_directory, clock)
           jpath == JsonFilePath(run.dir, run.stamp)
           a1    == _add_handler(handlers, "json", Len(heap) + 1)
           a2    == _add_handler(a1.handlers, "stream", Len(heap) + 2)
       IN  IF ~NeedsInitialization(_initialized) \/ at = "makedirs"
           THEN UNCHANGED <<cls, heap>>
           ELSE IF at = "json"
           THEN /\ log_datetime_stamp' = run.stamp
                /\ run_directory' = run.dir
                /\ UNCHANGED <<handlers, json_file_path, json_file_handler,
                               stream_handler, _initialized, heap>>
           ELSE /\ a1.exc = "" /\ a2.exc = ""
                /\ Len(heap) + 2 <= MaxHandlers
                /\ log_datetime_stamp' = run.stamp
                /\ run_directory' = run.dir
                /\ json_file_path' = jpath
                /\ json_file_handler' = Len(heap) + 1
                /\ stream_handler' = Len(heap) + 2
                /\ heap' = heap \o <<FileHandler("json", jpath), StreamHandler>>
                /\ handlers' = a2.handlers
                /\ UNCHANGED _initialized
    /\ UNCHANGED <<clock, thr, files, lock, emitters, parser, attached, logger_level, legacy>>

\* add_file_handler(run_name) when logging.FileHandler cannot make the file:
\* the OSError leaves the method before _add_handler is called.
AddFileHandlerFails(run_name) ==
    /\ faults < MaxFaults
    /\ faults' = faults + 1
    /\ lastOp' = Op("add_file_handler", run_name, "OSError", None)
    /\ UNCHANGED <<cls, heap, clock, thr, files, lock, emitters, parser, attached, logger_level, legacy>>

\* The body of get_handler on the dict hs: the outcome and the handler returned.
Lookup(hs, key) ==
    IF key \in DOMAIN hs
    THEN [exc |-> "", ret |-> hs[key]]
    ELSE [exc |-> "KeyError", ret |-> None]

\* HandlerController.get_handler(key)
get_handler(key) ==
    /\ UNCHANGED <<io, attached, logger_level, legacy>>
    /\ lastOp' = Op("get_handler", key, Lookup(handlers, key).exc, Lookup(handlers, key).ret)
    /\ UNCHANGED <<cls, heap, clock, thr>>

\* remove_handler without its del statement: the entry stays.
DelItem_forgotten(hs, name) == hs

\* del cls.handlers[name]
DelItem(hs, name) == [n \in DOMAIN hs \ {name} |-> hs[n]]

\* HandlerController.remove_handler(name)
remove_handler(name) ==
    /\ UNCHANGED <<io, attached, logger_level, legacy>>
    /\ IF name \in DOMAIN handlers
       THEN /\ heap' = CloseAll(heap, {handlers[name]})
            /\ handlers' = DelItem(handlers, name)
            /\ lastOp' = Op("remove_handler", name, "", None)
       ELSE /\ lastOp' = Op("remove_handler", name, "KeyError", None)
            /\ UNCHANGED <<handlers, heap>>
    /\ UNCHANGED <<log_datetime_stamp, run_directory, json_file_path,
                   json_file_handler, stream_handler, _initialized, clock, thr>>

\* _reset with the test on _initialized inverted.
ResetClearsRunContext_inverted(flag) == ~flag

\* if cls._initialized, the test in _reset that guards the clearing of the
\* run context
ResetClearsRunContext(flag) == flag

\* HandlerController._reset()
_reset ==
    /\ UNCHANGED <<io, attached, logger_level, legacy>>
    /\ heap' = CloseAll(heap, Range(handlers))
    /\ handlers' = EmptyDict
    /\ IF ResetClearsRunContext(_initialized)
       THEN /\ log_datetime_stamp' = NoStr
            /\ run_directory' = NoStr
            /\ json_file_path' = NoPath
            /\ stream_handler' = None
            /\ json_file_handler' = None
       ELSE UNCHANGED <<log_datetime_stamp, run_directory, json_file_path,
                        stream_handler, json_file_handler>>
    /\ _initialized' = FALSE
    /\ lastOp' = Op("_reset", "", "", None)
    /\ UNCHANGED <<clock, thr>>

Next ==
    \/ Tick
    \/ \E d \in LogDirs : __new__(d) /\ UNCHANGED <<attached, logger_level, legacy>>
    \/ \E n \in RunNames : add_file_handler(n)
    \/ \E k \in Names : get_handler(k)
    \/ \E n \in Names : remove_handler(n)
    \/ _reset

Spec == Init /\ [][Next]_vars

\* ---------------------------------------------------------------- threads
\* HandlerController(log_directory) executed by several threads.  The class
\* takes no lock, so the threads interleave between the statements of
\* __new__, _add_handler and add_file_handler; each action below is one such
\* statement of thread t.
At(t, pc) == thr[t].pc = pc

Goto(t, pc) == [thr EXCEPT ![t].pc = pc]

\* Thread t calls HandlerController(d).
Call(t, d) ==
    /\ UNCHANGED <<io, attached, logger_level, legacy>>
    /\ At(t, "idle")
    /\ thr' = [thr EXCEPT ![t].pc = "test", ![t].log_directory = d]
    /\ UNCHANGED <<cls, heap, clock, lastOp>>

\* if cls._initialized == False
TestInitialized(t) ==
    /\ UNCHANGED <<io, attached, logger_level, legacy>>
    /\ At(t, "test")
    /\ thr' = Goto(t, IF NeedsInitialization(_initialized) THEN "generate" ELSE "makedirs")
    /\ UNCHANGED <<cls, heap, clock, lastOp>>

\* The call of cls._generate_program_run_folder(log_directory)
GenerateRunFolder(t) ==
    /\ UNCHANGED <<io, attached, logger_level, legacy>>
    /\ At(t, "generate")
    /\ thr' = [thr EXCEPT ![t].pc = "store_stamp",
                          ![t].run = _generate_program_run_folder(thr[t].log_directory, clock)]
    /\ UNCHANGED <<cls, heap, clock, lastOp>>

\* cls.log_datetime_stamp = ...
StoreStamp(t) ==
    /\ UNCHANGED <<io, attached, logger_level, legacy>>
    /\ At(t, "store_stamp")
    /\ log_datetime_stamp' = thr[t].run.stamp
    /\ thr' = Goto(t, "store_directory")
    /\ UNCHANGED <<handlers, run_directory, json_file_path, json_file_handler,
                   stream_handler, _initialized, heap, clock, lastOp>>

\* cls.run_directory = ...
StoreRunDirectory(t) ==
    /\ UNCHANGED <<io, attached, logger_level, legacy>>
    /\ At(t, "store_directory")
    /\ run_directory' = thr[t].run.dir
    /\ thr' = Goto(t, "create_json")
    /\ UNCHANGED <<handlers, log_datetime_stamp, json_file_path, json_file_handler,
                   stream_handler, _initialized, heap, clock, lastOp>>

\* The call of cls._create_json_log_handler(): it reads the class attributes.
CreateJsonHandler(t) ==
    /\ UNCHANGED <<io, attached, logger_level, legacy>>
    /\ At(t, "create_json")
    /\ heap' = Append(heap, FileHandler("json", JsonFilePath(run_directory, log_datetime_stamp)))
    /\ thr' = [thr EXCEPT ![t].pc = "store_json_path",
                          ![t].path = JsonFilePath(run_directory, log_datetime_stamp),
                          ![t].handler = Len(heap) + 1]
    /\ UNCHANGED <<cls, clock, lastOp>>

\* cls.json_file_path = ...
StoreJsonPath(t) ==
    /\ UNCHANGED <<io, attached, logger_level, legacy>>
    /\ At(t, "store_json_path")
    /\ json_file_path' = thr[t].path
    /\ thr' = Goto(t, "store_json_handler")
    /\ UNCHANGED <<handlers, log_datetime_stamp, run_directory, json_file_handler,
                   stream_handler, _initialized, heap, clock, lastOp>>

\* cls.json_file_handler = ...
StoreJsonHandler(t) ==
    /\ UNCHANGED <<io, attached, logger_level, legacy>>
    /\ At(t, "store_json_handler")
    /\ json_file_handler' = thr[t].handler
    /\ thr' = Goto(t, "create_stream")
    /\ UNCHANGED <<handlers, log_datetime_stamp, run_directory, json_file_path,
                   stream_handler, _initialized, heap, clock, lastOp>>

\* cls.stream_handler = cls._create_stream_log_handler()
CreateStreamHandler(t) ==
    /\ UNCHANGED <<io, attached, logger_level, legacy>>
    /\ At(t, "create_stream")
    /\ heap' = Append(heap, StreamHandler)
    /\ stream_handler' = Len(heap) + 1
    /\ thr' = Goto(t, "call_add_json")
    /\ UNCHANGED <<handlers, log_datetime_stamp, run_directory, json_file_path,
                   json_file_handler, _initialized, clock, lastOp>>

\* cls._add_handler("json", cls.json_file_handler) and
\* cls._add_handler("stream", cls.stream_handler): the argument is read from
\* the class when the call is made.
CallAddHandler(t) ==
    /\ UNCHANGED <<io, attached, logger_level, legacy>>
    /\ \/ /\ At(t, "call_add_json")
          /\ thr' = [thr EXCEPT ![t].pc = "add_test", ![t].name = "json",
                                ![t].handler = json_file_handler]
       \/ /\ At(t, "call_add_stream")
          /\ thr' = [thr EXCEPT ![t].pc = "add_test", ![t].name = "stream",
                                ![t].handler = stream_handler]
    /\ UNCHANGED <<cls, heap, clock, lastOp>>

\* cls.add_file_handler("main") up to its call of _add_handler.
CallAddFileHandler(t) ==
    /\ UNCHANGED <<io, attached, logger_level, legacy>>
    /\ At(t, "call_add_main")
    /\ heap' = Append(heap, FileHandler("file",
                   ReadableFilePath(run_directory, log_datetime_stamp, "main")))
    /\ thr' = [thr EXCEPT ![t].pc = "add_test", ![t].name = "main",
                          ![t].handler = Len(heap) + 1]
    /\ UNCHANGED <<cls, clock, lastOp>>

\* if name not in cls.handlers ... else raise KeyError
AddHandlerTest(t) ==
    /\ UNCHANGED <<io, attached, logger_level, legacy>>
    /\ At(t, "add_test")
    /\ thr' = Goto(t, IF _add_handler(handlers, thr[t].name, thr[t].handler).exc = ""
                      THEN "add_store" ELSE "raised")
    /\ UNCHANGED <<cls, heap, clock, lastOp>>

\* cls.handlers[name] = handler, and the return to __new__
AddHandlerStore(t) ==
    /\ UNCHANGED <<io, attached, logger_level, legacy>>
    /\ At(t, "add_store")
    /\ handlers' = (thr[t].name :> thr[t].handler) @@ handlers
    /\ thr' = Goto(t, CASE thr[t].name = "json" -> "call_add_stream"
                        [] thr[t].name = "stream" -> "call_add_main"
                        [] OTHER -> "set_initialized")
    /\ UNCHANGED <<log_datetime_stamp, run_directory, json_file_path, json_file_handler,
                   stream_handler, _initialized, heap, clock, lastOp>>

\* cls._initialized = True
SetInitialized(t) ==
    /\ UNCHANGED <<io, attached, logger_level, legacy>>
    /\ At(t, "set_initialized")
    /\ _initialized' = TRUE
    /\ thr' = Goto(t, "makedirs")
    /\ UNCHANGED <<handlers, log_datetime_stamp, run_directory, json_file_path,
                   json_file_handler, stream_handler, heap, clock, lastOp>>

\* os.makedirs(cls.run_directory, exist_ok=True) and the return of the instance
Return(t) ==
    /\ UNCHANGED <<io, attached, logger_level, legacy>>
    /\ At(t, "makedirs")
    /\ MakeRunDirectory(thr[t].log_directory)
    /\ thr' = Goto(t, "returned")
    /\ UNCHANGED <<clock, lastOp>>

ThreadStep(t) ==
    \/ \E d \in LogDirs : Call(t, d)
    \/ TestInitialized(t)
    \/ GenerateRunFolder(t)
    \/ StoreStamp(t)
    \/ StoreRunDirectory(t)
    \/ CreateJsonHandler(t)
    \/ StoreJsonPath(t)
    \/ StoreJsonHandler(t)
    \/ CreateStreamHandler(t)
    \/ CallAddHandler(t)
    \/ CallAddFileHandler(t)
    \/ AddHandlerTest(t)
    \/ AddHandlerStore(t)
    \/ SetInitialized(t)
    \/ Return(t)

ConcNext ==
    \/ Tick
    \/ \E t \in Threads : ThreadStep(t)

\* Threads that each construct one HandlerController on a fresh class.
ConcSpec == Init /\ [][ConcNext]_vars

\* ---------------------------------------------------------------- logging calls
\* The modelled logging calls: logger.debug(msg) and
\* logger.info(msg, extra={"x": 1}).
X1 == [k \in {"x"} |-> 1]
LogCalls == {[level |-> "DEBUG", extra |-> EmptyDict], [level |-> "INFO", extra |-> X1]}

\* sys.stderr, the stream of the stream handler.
StdErr == [dir |-> NoStr, stamp |-> NoStr, name |-> "stderr", ext |-> ""]

\* setLevel(...) of the three handler factories: the stream handler takes
\* INFO and above, the file handlers DEBUG and above.
HandlerLevel_all_debug(h) == LevelNo.DEBUG

HandlerLevel(h) == IF heap[h].kind = "stream" THEN LevelNo.INFO ELSE LevelNo.DEBUG

\* StructuredLogger.makeRecord: the record of the msg-th logging call of
\* thread t, with record.context = extra or {}.
makeRecord(t, msg, level, extra, now) ==
    [created |-> now, levelname |-> level, levelno |-> LevelNo[level],
     name |-> "test_logger", msg |-> <<t, msg>>, module |-> "test_module",
     funcName |-> "test_function", lineno |-> 1, exc_info |-> None,
     context |-> extra]

\* datetime.fromtimestamp(created).isoformat() + "Z": the text of a local
\* time without offset, followed by the letter Z.
IsoFormatZ(created) == [text |-> "isoformat", seconds |-> created, suffix |-> "Z"]

\* JSONFormatter.format(record): the text of one JSON object.
JSONFormatter(record) ==
    [kind |-> "object",
     members |-> [timestamp |-> IsoFormatZ(record.created),
                  level     |-> record.levelname,
                  logger    |-> record.name,
                  message   |-> record.msg,
                  module    |-> record.module,
                  function  |-> record.funcName,
                  line      |-> record.lineno,
                  exception |-> "",
                  extra     |-> record.context]]

\* logging.Formatter(FORMAT_BASIC).format(record): one line of readable text.
TextFormatter(record) ==
    [kind |-> "text", levelname |-> record.levelname, name |-> record.name,
     message |-> record.msg]

\* The formatter each handler factory sets on its handler.
Format(h, record) ==
    IF heap[h].kind = "json" THEN JSONFormatter(record) ELSE TextFormatter(record)

\* The file a handler writes to.
Target(h) == IF heap[h].kind = "stream" THEN StdErr ELSE heap[h].path

\* The lines of the file at path p; a file nothing was written to is empty.
Content(fs, p) == IF p \in DOMAIN fs THEN fs[p] ELSE <<>>

\* stream.write(msg + terminator) on a file opened for appending.
WriteLine(fs, p, line) ==
    [q \in DOMAIN fs \cup {p} |-> IF q = p THEN Append(Content(fs, p), line) ELSE fs[q]]

\* Logger.addHandler(hdlr): a handler already in the list is not added again.
addHandler(hs, h) == IF h \in Range(hs) THEN hs ELSE Append(hs, h)

\* configure_logging(log_directory): HandlerController(log_directory), then
\* the root logger is set to DEBUG and the "main", JSON and stream handlers
\* are added to it.  A KeyError of the constructor leaves the logger as it
\* was, a KeyError of get_handler("main") leaves its handlers as they were;
\* lastOp keeps the outcome of the constructor.
ConfigureLoggingWithin(log_directory, limit) ==
    /\ NewWithin(log_directory, limit)
    /\ logger_level' = IF lastOp'.exc # "" THEN logger_level
                       ELSE [logger_level EXCEPT !["root"] = LevelNo.DEBUG]
    /\ attached' = IF lastOp'.exc # "" \/ Lookup(handlers', "main").exc # ""
                   THEN attached
                   ELSE addHandler(addHandler(addHandler(attached,
                            Lookup(handlers', "main").ret), json_file_handler'),
                            stream_handler')
    /\ UNCHANGED legacy

\* configure_logging(log_directory)
configure_logging(log_directory) == ConfigureLoggingWithin(log_directory, MaxHandlers)

Min(S) == CHOOSE x \in S : \A y \in S : x <= y

\* Logger.callHandlers: the next handler of the root logger after position i
\* that admits the record (record.levelno >= hdlr.level), 0 when none is left.
NextHandlerIndex(record, i) ==
    LET S == {j \in (i + 1)..Len(attached) : record.levelno >= HandlerLevel(attached[j])}
    IN  IF S = {} THEN 0 ELSE Min(S)

\* Logger.setLevel(level) on the logger called name.
setLevel(name, level) ==
    /\ logger_level' = [logger_level EXCEPT ![name] = LevelNo[level]]
    /\ lastOp' = Op("setLevel", <<name, level>>, "", None)
    /\ UNCHANGED <<cls, heap, clock, thr, io, attached, legacy>>

\* Logger.getEffectiveLevel: the level of the logger, that of the root logger
\* when it has none of its own.
getEffectiveLevel(name) ==
    IF logger_level[name] # LevelNo.NOTSET THEN logger_level[name] ELSE logger_level["root"]

\* Logger.isEnabledFor(level), the test that opens debug, info and performance.
isEnabledFor(name, level) == LevelNo[level] >= getEffectiveLevel(name)

\* Thread t calls debug(...), performance(...) or info(...) with extra=extra
\* on the logger called name; `record` is the event of the call.  A call the
\* logger is not enabled for returns at once.  No handler is ever added to a
\* logger other than the root and every logger propagates, so the handlers
\* callHandlers finds for the record are those of the root logger.
LogCall(t, name, level, extra) ==
    /\ emitters[t].pc = "idle"
    /\ emitters[t].n < MaxEvents
    /\ emitters' = [emitters EXCEPT ![t] =
            [pc |-> IF isEnabledFor(name, level) THEN "handlers" ELSE "idle",
             i |-> 0, raised |-> "", n |-> @.n + 1, failed |-> {},
             record |-> [makeRecord(t, @.n + 1, level, extra, clock) EXCEPT !.name = name]]]
    /\ UNCHANGED <<cls, heap, clock, lastOp, thr, files, attached, logger_level, legacy, lock, parser, faults>>

\* Handler.handle: thread t takes the lock of the next handler.
Acquire(t) ==
    LET j == NextHandlerIndex(emitters[t].record, emitters[t].i)
    IN  /\ emitters[t].pc = "handlers"
        /\ j # 0
        /\ attached[j] \notin lock
        /\ lock' = lock \cup {attached[j]}
        /\ emitters' = [emitters EXCEPT ![t].pc = "emit", ![t].i = j]
        /\ UNCHANGED <<cls, heap, clock, lastOp, thr, files, attached, logger_level, legacy, parser, faults>>

\* FileHandler.emit / StreamHandler.emit under the handler's lock.  A file
\* handler that was closed opens its file again (mode 'a'), then the record is
\* formatted, written as one line and flushed.
Emit(t) ==
    LET h == attached[emitters[t].i]
    IN  /\ emitters[t].pc = "emit"
        /\ files' = WriteLine(files, Target(h), Format(h, emitters[t].record))
        /\ heap' = [heap EXCEPT ![h].open = TRUE]
        /\ emitters' = [emitters EXCEPT ![t].pc = "release"]
        /\ UNCHANGED <<cls, clock, lastOp, thr, attached, logger_level, legacy, lock, parser, faults>>

\* The same emit when an I/O operation fails.  An OSError of the open of a
\* closed file handler leaves emit and the logging call; an OSError of the
\* write is given to Handler.handleError, which reports it on stderr and
\* returns, and nothing is written.
EmitFails(t) ==
    LET h == attached[emitters[t].i]
    IN  /\ emitters[t].pc = "emit"
        /\ faults < MaxFaults
        /\ faults' = faults + 1
        /\ \/ /\ heap[h].kind # "stream"
              /\ ~heap[h].open
              /\ emitters' = [emitters EXCEPT ![t].pc = "release", ![t].raised = "OSError",
                                              ![t].failed = @ \cup {emitters[t].i}]
              /\ UNCHANGED heap
           \/ /\ heap' = [heap EXCEPT ![h].open = TRUE]
              /\ emitters' = [emitters EXCEPT ![t].pc = "release",
                                              ![t].failed = @ \cup {emitters[t].i}]
        /\ UNCHANGED <<cls, clock, lastOp, thr, files, attached, logger_level, legacy, lock, parser>>

\* The lock of the handler is released; an exception that left emit leaves
\* the logging call, otherwise callHandlers goes on with the next handler.
Release(t) ==
    /\ emitters[t].pc = "release"
    /\ lock' = lock \ {attached[emitters[t].i]}
    /\ emitters' = [emitters EXCEPT ![t].pc =
            IF emitters[t].raised # "" THEN "idle" ELSE "handlers"]
    /\ UNCHANGED <<cls, heap, clock, lastOp, thr, files, attached, logger_level, legacy, parser, faults>>

\* callHandlers has no handler left: the logging call returns.
LogReturn(t) ==
    /\ emitters[t].pc = "handlers"
    /\ NextHandlerIndex(emitters[t].record, emitters[t].i) = 0
    /\ emitters' = [emitters EXCEPT ![t].pc = "idle"]
    /\ UNCHANGED <<cls, heap, clock, lastOp, thr, files, attached, logger_level, legacy, lock, parser, faults>>


\* ---------------------------------------------------------------- the parser
\* The values of ECoreFields, in the order _normalize visits them.
CORE_FIELDS == <<"timestamp", "level", "logger", "message", "module", "function",
                 "line", "exception", "extras">>

\* collections.Counter()
EmptyCounter == [k \in {} |-> 0]

\* counter[key] += 1
Increment(counter, key) ==
    [k \in DOMAIN counter \cup {key} |->
        IF k = key THEN (IF key \in DOMAIN counter THEN counter[key] ELSE 0) + 1
        ELSE counter[k]]

\* The attributes JSONLogParser.__init__ binds.
NewParser(file_path) ==
    [file_path |-> file_path, records |-> <<>>, _level_counts |-> EmptyCounter,
     _module_counts |-> EmptyCounter, _func_counts |-> EmptyCounter]

\* JSONLogParser(file_path): a path that does not end in .json.log is refused.
JSONLogParser(file_path) ==
    /\ IF file_path.ext # ".json.log"
       THEN /\ lastOp' = Op("JSONLogParser", file_path, "ValueError", None)
            /\ UNCHANGED parser
       ELSE /\ parser' = NewParser(file_path)
            /\ lastOp' = Op("JSONLogParser", file_path, "", None)
    /\ UNCHANGED <<cls, heap, clock, thr, files, attached, logger_level, legacy, lock, emitters, faults>>

\* A line that holds only white space.
BlankLine == [kind |-> "blank"]
\* A line that is not a JSON document, such as a line cut short.
GarbageLine == [kind |-> "garbage"]
\* A line that holds a JSON array.
ArrayLine == [kind |-> "array"]

\* line.strip() is the empty string
IsBlank(line) == line.kind = "blank"

\* json.loads(line): a JSON object gives a dict, a JSON array a list, any
\* other text raises JSONDecodeError.
json_loads(line) ==
    CASE line.kind = "object" -> [exc |-> "", value |-> [type |-> "dict", items |-> line.members]]
      [] line.kind = "array"  -> [exc |-> "", value |-> [type |-> "list", items |-> <<>>]]
      [] OTHER                -> [exc |-> "JSONDecodeError", value |-> None]

\* fromisoformat that takes any string for a time and reads the second 0.
fromisoformat_lenient(text) ==
    IF text.text = "number"
    THEN [exc |-> "AttributeError", value |-> None]
    ELSE [exc |-> "",
          value |-> [seconds |-> IF text.text = "isoformat" THEN text.seconds ELSE 0,
                     tzinfo  |-> IF text.suffix = "Z" THEN "UTC" ELSE "naive"]]

\* datetime.fromisoformat(text.replace("Z", "+00:00")): the text of a local
\* time followed by Z is read as that time of day in UTC; a value that is no
\* string has no replace method, a string that is no ISO-8601 time is refused.
fromisoformat(text) ==
    IF text.text = "number"
    THEN [exc |-> "AttributeError", value |-> None]
    ELSE IF text.text # "isoformat"
    THEN [exc |-> "ValueError", value |-> None]
    ELSE [exc |-> "",
          value |-> [seconds |-> text.seconds,
                     tzinfo  |-> IF text.suffix = "Z" THEN "UTC" ELSE "naive"]]

\* The default of _normalize with one dict shared by all records as the
\* default of the extras, after an earlier record's dict was written to.
RawField_shared_default(items, field) ==
    IF field \in DOMAIN items THEN items[field]
    ELSE IF field = "extras" THEN X1
    ELSE IF field = "message" THEN NoStr ELSE ""

\* raw[field] if field in raw, else the default of _normalize: {} for the
\* extras, the empty string for any other field (NoStr where the texts of the
\* field are tuples).
RawField(items, field) ==
    IF field \in DOMAIN items THEN items[field]
    ELSE IF field = "extras" THEN EmptyDict
    ELSE IF field = "message" THEN NoStr ELSE ""

\* JSONLogParser._normalize(raw): the record of the nine core fields, or the
\* exception raw["timestamp"] or fromisoformat raises.
_normalize(raw) ==
    IF raw.type # "dict"
    THEN [exc |-> "TypeError", record |-> None]
    ELSE IF "timestamp" \notin DOMAIN raw.items
    THEN [exc |-> "KeyError", record |-> None]
    ELSE IF fromisoformat(raw.items["timestamp"]).exc # ""
    THEN [exc |-> fromisoformat(raw.items["timestamp"]).exc, record |-> None]
    ELSE [exc |-> "",
          record |-> [f \in Range(CORE_FIELDS) |->
                        IF f = "timestamp"
                        THEN fromisoformat(raw.items["timestamp"]).value
                        ELSE RawField(raw.items, f)]]

\* _record_metrics that counts the function of the record as its module.
_record_metrics_swapped(p, record) ==
    [p EXCEPT !._level_counts  = Increment(@, record["level"]),
              !._module_counts = Increment(@, record["function"]),
              !._func_counts   = Increment(@, record["function"])]

\* JSONLogParser._record_metrics(record) on the parser object p
_record_metrics(p, record) ==
    [p EXCEPT !._level_counts  = Increment(@, record["level"]),
              !._module_counts = Increment(@, record["module"]),
              !._func_counts   = Increment(@, record["function"])]

\* The for loop of load over the lines of the file: it ends at the first
\* exception and keeps what it appended before.
RECURSIVE LoadLines(_, _)
LoadLines(p, lines) ==
    IF lines = <<>>
    THEN [exc |-> "", parser |-> p]
    ELSE IF IsBlank(Head(lines))
    THEN LoadLines(p, Tail(lines))
    ELSE IF json_loads(Head(lines)).exc # ""
    THEN [exc |-> json_loads(Head(lines)).exc, parser |-> p]
    ELSE LET n == _normalize(json_loads(Head(lines)).value)
         IN  IF n.exc # ""
             THEN [exc |-> n.exc, parser |-> p]
             ELSE LoadLines(_record_metrics([p EXCEPT !.records = Append(@, n.record)],
                                            n.record),
                            Tail(lines))

\* The body of load on the parser object p: self.path is read first, an
\* attribute __init__ does not bind (it binds file_path).
Load(p, fs) ==
    IF "path" \notin DOMAIN p
    THEN [exc |-> "AttributeError", parser |-> p]
    ELSE IF p.path \notin DOMAIN fs
    THEN [exc |-> "FileNotFoundError", parser |-> p]
    ELSE LoadLines(p, fs[p.path])

\* JSONLogParser.load()
load ==
    /\ parser # NoParser
    /\ parser' = Load(parser, files).parser
    /\ lastOp' = Op("load", "", Load(parser, files).exc, None)
    /\ UNCHANGED <<cls, heap, clock, thr, files, attached, logger_level, legacy, lock, emitters, faults>>

\* ---------------------------------------------------------------- logging runs
\* Every thread has made its logging calls and is back from the last one.
AllLogged == \A t \in Threads : emitters[t].pc = "idle" /\ emitters[t].n = MaxEvents

\* Threads that log through the root logger once configure_logging has
\* returned, while the registry is reduced and reset; when the threads are
\* done a parser is made for the JSON file of the run and loaded.
EmitNext ==
    \/ configure_logging(LOG_FILE_DEFAULT_DIRECTORY)
    \/ remove_handler("main")
    \/ _reset
    \/ \E t \in Threads : \E c \in LogCalls :
          attached # <<>> /\ LogCall(t, LoggerOfRun["main"], c.level, c.extra)
    \/ \E t \in Threads : Acquire(t)
    \/ \E t \in Threads : Emit(t)
    \/ \E t \in Threads : Release(t)
    \/ \E t \in Threads : LogReturn(t)
    \/ AllLogged /\ JSONLogParser(json_file_path)
    \/ load

EmitSpec == Init /\ [][EmitNext]_vars

\* The thread that configures logging.
MainThread == 1

\* One thread logs through the root logger while the registry is reduced and
\* reset, and an I/O operation of a handler may fail.
FaultNext ==
    \/ configure_logging(LOG_FILE_DEFAULT_DIRECTORY)
    \/ remove_handler("main")
    \/ _reset
    \/ \E c \in LogCalls :
          attached # <<>> /\ LogCall(MainThread, LoggerOfRun["main"], c.level, c.extra)
    \/ Acquire(MainThread)
    \/ Emit(MainThread)
    \/ EmitFails(MainThread)
    \/ Release(MainThread)
    \/ LogReturn(MainThread)

FaultSpec == Init /\ [][FaultNext]_vars

\* Logging is configured, a file handler is added for a second run name, and
\* the thread logs through the loggers of the two runs.
SinkNext ==
    \/ configure_logging(LOG_FILE_DEFAULT_DIRECTORY)
    \/ _initialized /\ add_file_handler("file_2")
    \/ \E r \in DOMAIN LoggerOfRun \cap DOMAIN handlers : \E c \in LogCalls :
          attached # <<>> /\ LogCall(MainThread, LoggerOfRun[r], c.level, c.extra)
    \/ Acquire(MainThread)
    \/ Emit(MainThread)
    \/ Release(MainThread)
    \/ LogReturn(MainThread)

SinkSpec == Init /\ [][SinkNext]_vars

\* Logging is configured; between its logging calls the thread sets the level
\* of its logger.
LevelNext ==
    \/ configure_logging(LOG_FILE_DEFAULT_DIRECTORY)
    \/ \E level \in {"DEBUG", "INFO"} :
          emitters[MainThread].pc = "idle" /\ setLevel(LoggerOfRun["main"], level)
    \/ \E level \in {"DEBUG", "PERFORMANCE", "INFO"} :
          attached # <<>> /\ LogCall(MainThread, LoggerOfRun["main"], level, EmptyDict)
    \/ Acquire(MainThread)
    \/ Emit(MainThread)
    \/ Release(MainThread)
    \/ LogReturn(MainThread)

LevelSpec == Init /\ [][LevelNext]_vars

\* The handler objects of two runs.
HandlersOfTwoRuns == 2 * NewObjects(EmptyDict)

\* Logging is configured, the registry is reset and logging is configured
\* again for a second run, each between two logging calls of the thread.
ResetNext ==
    \/ Tick
    \/ /\ emitters[MainThread].pc = "idle"
       /\ ConfigureLoggingWithin(LOG_FILE_DEFAULT_DIRECTORY, HandlersOfTwoRuns)
    \/ emitters[MainThread].pc = "idle" /\ _reset
    \/ \E c \in LogCalls :
          attached # <<>> /\ LogCall(MainThread, LoggerOfRun["main"], c.level, c.extra)
    \/ Acquire(MainThread)
    \/ Emit(MainThread)
    \/ Release(MainThread)
    \/ LogReturn(MainThread)

ResetSpec == Init /\ [][ResetNext]_vars

\* Logging is configured and the thread logs; the file handler of "main" is
\* removed and added again.
ReaddSpec ==
    Init /\ [][
        \/ configure_logging(LOG_FILE_DEFAULT_DIRECTORY)
        \/ remove_handler("main")
        \/ _initialized /\ add_file_handler("main")
        \/ \E c \in LogCalls :
              attached # <<>> /\ LogCall(MainThread, LoggerOfRun["main"], c.level, c.extra)
        \/ Acquire(MainThread)
        \/ Emit(MainThread)
        \/ Release(MainThread)
        \/ LogReturn(MainThread)
      ]_vars

\* The class is set up and file handlers are added while a directory or a
\* file may fail to be made.
SetupNext ==
    \/ Tick
    \/ \E d \in LogDirs : __new__(d) /\ UNCHANGED <<attached, logger_level, legacy>>
    \/ \E d \in LogDirs : \E at \in {"makedirs", "json", "main"} : NewFails(d, at)
    \/ \E n \in {"main", "file_2"} : _initialized /\ add_file_handler(n)
    \/ \E n \in {"main", "file_2"} : _initialized /\ AddFileHandlerFails(n)
    \/ \E k \in Names : get_handler(k)

SetupSpec == Init /\ [][SetupNext]_vars

\* The Counter of top_messages: how often each message occurs in records.
MessageCounter(records) ==
    [m \in {records[i]["message"] : i \in DOMAIN records} |->
        Cardinality({i \in DOMAIN records : records[i]["message"] = m})]

\* get_records_by_id(id) for one integer id, after the interface of the record
\* store: the record at index id of the record list.
get_records_by_id(p, id) ==
    IF id \in 0..(Len(p.records) - 1)
    THEN [exc |-> "", ret |-> p.records[id + 1]]
    ELSE [exc |-> "IndexError", ret |-> None]

\* The arguments of get_records_by_id: an integer, a string of digits, a list
\* of integers.
IntId(i) == [type |-> "int", value |-> i]
StrId(i) == [type |-> "str", value |-> i]
IdList(ids) == [type |-> "list", value |-> ids]

\* get_records_by_id that reads a string of digits as the integer it spells.
GetRecordsById_coerced(p, id) ==
    CASE id.type \in {"int", "str"} -> get_records_by_id(p, id.value)
      [] id.type = "list" ->
            IF \E k \in DOMAIN id.value : get_records_by_id(p, id.value[k]).exc # ""
            THEN [exc |-> "IndexError", ret |-> None]
            ELSE [exc |-> "",
                  ret |-> [k \in DOMAIN id.value |-> get_records_by_id(p, id.value[k]).ret]]

\* get_records_by_id(id | sequence of ids), after the interface of the record
\* store: an integer gives one record, a sequence of integers the list of
\* their records, any other id a type error; an id out of range is an index
\* error.
GetRecordsById(p, id) ==
    CASE id.type = "int" -> get_records_by_id(p, id.value)
      [] id.type = "list" ->
            IF \E k \in DOMAIN id.value : get_records_by_id(p, id.value[k]).exc # ""
            THEN [exc |-> "IndexError", ret |-> None]
            ELSE [exc |-> "",
                  ret |-> [k \in DOMAIN id.value |-> get_records_by_id(p, id.value[k]).ret]]
      [] OTHER -> [exc |-> "TypeError", ret |-> None]

\* JSONLogParser.get_records_by_id(id)
getRecordsById(id) ==
    /\ parser # NoParser
    /\ lastOp' = Op("get_records_by_id", id, GetRecordsById(parser, id).exc,
                    GetRecordsById(parser, id).ret)
    /\ UNCHANGED <<cls, heap, clock, thr, files, attached, logger_level, legacy, lock, emitters, parser, faults>>

\* No datetime: the None default of start_date and end_date.
NoDate == [none |-> TRUE]

\* Datetime objects with and without a time zone.
Aware(seconds) == [seconds |-> seconds, tzinfo |-> "UTC"]
Naive(seconds) == [seconds |-> seconds, tzinfo |-> "naive"]

\* in_range(r) of filter_by_time: a bound that is given is compared with
\* ts < bound; comparing an aware with a naive datetime raises TypeError.
in_range(record, start_date, end_date) ==
    IF start_date # NoDate /\ record["timestamp"].tzinfo # start_date.tzinfo
    THEN "TypeError"
    ELSE IF start_date # NoDate /\ record["timestamp"].seconds < start_date.seconds
    THEN "False"
    ELSE IF end_date # NoDate /\ record["timestamp"].tzinfo # end_date.tzinfo
    THEN "TypeError"
    ELSE IF end_date # NoDate /\ record["timestamp"].seconds < end_date.seconds
    THEN "False"
    ELSE "True"

\* The list comprehension of filter_by_time over records.
FilterByTime(records, start_date, end_date) ==
    IF \E i \in DOMAIN records : in_range(records[i], start_date, end_date) = "TypeError"
    THEN [exc |-> "TypeError", ret |-> None]
    ELSE [exc |-> "",
          ret |-> SelectSeq(records, LAMBDA r : in_range(r, start_date, end_date) = "True")]

\* JSONLogParser.filter_by_time(start_date, end_date)
filter_by_time(start_date, end_date) ==
    /\ parser # NoParser
    /\ lastOp' = Op("filter_by_time", <<start_date, end_date>>,
                    FilterByTime(parser.records, start_date, end_date).exc,
                    FilterByTime(parser.records, start_date, end_date).ret)
    /\ UNCHANGED <<cls, heap, clock, thr, files, attached, logger_level, legacy, lock, emitters, parser, faults>>

\* The list comprehension of filter_by_level with the level test negated.
FilterByLevel_negated(records, levels) ==
    SelectSeq(records, LAMBDA r : r["level"] \notin levels)

\* The list comprehension of filter_by_level over records.
FilterByLevel(records, levels) ==
    SelectSeq(records, LAMBDA r : r["level"] \in levels)

\* JSONLogParser.filter_by_level(*levels)
filter_by_level(levels) ==
    /\ parser # NoParser
    /\ lastOp' = Op("filter_by_level", levels, "", FilterByLevel(parser.records, levels))
    /\ UNCHANGED <<cls, heap, clock, thr, files, attached, logger_level, legacy, lock, emitters, parser, faults>>

\* record.get("extras", {}).get(key, default) with the default forgotten
GetExtra_none(record, key, default) ==
    IF "extras" \in DOMAIN record /\ key \in DOMAIN record["extras"]
    THEN record["extras"][key]
    ELSE None

\* record.get("extras", {}).get(key, default)
GetExtra(record, key, default) ==
    IF "extras" \in DOMAIN record /\ key \in DOMAIN record["extras"]
    THEN record["extras"][key]
    ELSE default

\* JSONLogParser.get_extra(record, key, default)
get_extra(record, key, default) ==
    /\ parser # NoParser
    /\ lastOp' = Op("get_extra", <<record, key, default>>, "", GetExtra(record, key, default))
    /\ UNCHANGED <<cls, heap, clock, thr, files, attached, logger_level, legacy, lock, emitters, parser, faults>>

\* filter_by_extra(key) that keeps the records with any extras at all.
FilterByExtra_nonempty(records, key) ==
    SelectSeq(records, LAMBDA r : r["extras"] # EmptyDict)

\* filter_by_extra(key), after the interface of the record store: the records
\* whose extras mapping has the key, whatever its value.
FilterByExtra(records, key) ==
    SelectSeq(records, LAMBDA r : key \in DOMAIN r["extras"])

\* JSONLogParser.filter_by_extra(key)
filter_by_extra(key) ==
    /\ parser # NoParser
    /\ lastOp' = Op("filter_by_extra", key, "", FilterByExtra(parser.records, key))
    /\ UNCHANGED <<cls, heap, clock, thr, files, attached, logger_level, legacy, lock, emitters, parser, faults>>

\* Counter(iterable): the (element, count) items in the order in which the
\* elements first occur, as a dict keeps them.
RECURSIVE CounterItems(_, _)
CounterItems(items, elements) ==
    IF elements = <<>>
    THEN items
    ELSE IF \E k \in DOMAIN items : items[k][1] = Head(elements)
    THEN CounterItems([k \in DOMAIN items |->
                          IF items[k][1] = Head(elements)
                          THEN <<items[k][1], items[k][2] + 1>>
                          ELSE items[k]],
                      Tail(elements))
    ELSE CounterItems(Append(items, <<Head(elements), 1>>), Tail(elements))

\* The place of an item in a list sorted by descending count, before the
\* items of the same count.
InsertByCount_before_ties(sorted, item) ==
    LET k == Cardinality({j \in DOMAIN sorted : sorted[j][2] > item[2]})
    IN  SubSeq(sorted, 1, k) \o <<item>> \o SubSeq(sorted, k + 1, Len(sorted))

\* The place of an item in a list sorted by descending count: after the items
\* of the same count, as a stable sort puts it.
InsertByCount(sorted, item) ==
    LET k == Cardinality({j \in DOMAIN sorted : sorted[j][2] >= item[2]})
    IN  SubSeq(sorted, 1, k) \o <<item>> \o SubSeq(sorted, k + 1, Len(sorted))

\* sorted(items, key=count, reverse=True): a stable sort.
RECURSIVE SortByCount(_)
SortByCount(items) ==
    IF items = <<>>
    THEN <<>>
    ELSE InsertByCount(SortByCount(SubSeq(items, 1, Len(items) - 1)), items[Len(items)])

\* Counter.most_common(n) for an integer n: the first n items of the sorted
\* list, none when n is not positive.
most_common(items, n) ==
    IF n <= 0 THEN <<>>
    ELSE SubSeq(SortByCount(items), 1, IF n < Len(items) THEN n ELSE Len(items))

\* JSONLogParser.top_messages(n)
top_messages(n) ==
    /\ parser # NoParser
    /\ lastOp' = Op("top_messages", n, "",
                    most_common(CounterItems(<<>>, [i \in DOMAIN parser.records |->
                                                        parser.records[i]["message"]]), n))
    /\ UNCHANGED <<cls, heap, clock, thr, files, attached, logger_level, legacy, lock, emitters, parser, faults>>

\* The records argument of to_dataframe: left out (the default None) or a
\* list of records.
NoArgument == [given |-> FALSE, value |-> <<>>]
Given(records) == [given |-> TRUE, value |-> records]

\* The row of a record: its fields other than extras, updated with the
\* entries of its extras.
Row(record) ==
    [k \in (DOMAIN record \ {"extras"}) \cup DOMAIN record["extras"] |->
        IF k \in DOMAIN record["extras"] THEN record["extras"][k] ELSE record[k]]

\* pd.DataFrame(rows): the rows, and as columns the union of their keys.
DataFrame(rows) ==
    [rows |-> rows, columns |-> UNION {DOMAIN rows[i] : i \in DOMAIN rows}]

\* The body of to_dataframe on the parser object p: `records if records else
\* self.records` takes the records of the parser for None and for an empty
\* list alike.
ToDataFrame(p, records) ==
    LET chosen == IF records.given /\ records.value # <<>> THEN records.value ELSE p.records
    IN  DataFrame([i \in DOMAIN chosen |-> Row(chosen[i])])

\* JSONLogParser.to_dataframe(records)
to_dataframe(records) ==
    /\ parser # NoParser
    /\ lastOp' = Op("to_dataframe", records, "", ToDataFrame(parser, records))
    /\ UNCHANGED <<cls, heap, clock, thr, files, attached, logger_level, legacy, lock, emitters, parser, faults>>

\* JSONLogParser.level_counts()
level_counts ==
    /\ parser # NoParser
    /\ lastOp' = Op("level_counts", "", "", parser._level_counts)
    /\ UNCHANGED <<cls, heap, clock, thr, files, attached, logger_level, legacy, lock, emitters, parser, faults>>

\* JSONLogParser.module_counts()
module_counts ==
    /\ parser # NoParser
    /\ lastOp' = Op("module_counts", "", "", parser._module_counts)
    /\ UNCHANGED <<cls, heap, clock, thr, files, attached, logger_level, legacy, lock, emitters, parser, faults>>

\* JSONLogParser.func_counts()
func_counts ==
    /\ parser # NoParser
    /\ lastOp' = Op("func_counts", "", "", parser._func_counts)
    /\ UNCHANGED <<cls, heap, clock, thr, files, attached, logger_level, legacy, lock, emitters, parser, faults>>

\* ---------------------------------------------------------------- parser runs
\* The JSON log file and the readable log file of a run in the default
\* directory.
LogPath ==
    JsonFilePath(_generate_program_run_folder(LOG_FILE_DEFAULT_DIRECTORY, 0).dir,
                 _generate_program_run_folder(LOG_FILE_DEFAULT_DIRECTORY, 0).stamp)
TextPath ==
    ReadableFilePath(_generate_program_run_folder(LOG_FILE_DEFAULT_DIRECTORY, 0).dir,
                     _generate_program_run_folder(LOG_FILE_DEFAULT_DIRECTORY, 0).stamp, "main")

\* The lines the JSON formatter writes for a debug call and for an info call
\* with extra={"x": 1}.
DebugLine == JSONFormatter(makeRecord(1, 1, "DEBUG", EmptyDict, 0))
InfoLine == JSONFormatter(makeRecord(1, 2, "INFO", X1, 1))
FormattedLines == {DebugLine, InfoLine}

\* A line that holds a JSON object without a timestamp.
NoTimestampLine == [kind |-> "object", members |-> [level |-> "ERROR", message |-> <<1, 3>>]]

\* The lines a log file is made of.
FileLines == FormattedLines \cup {BlankLine, GarbageLine, ArrayLine, NoTimestampLine}

\* The sequences of at most n elements of S.
SeqsUpTo(S, n) == UNION {[1..k -> S] : k \in 0..n}

\* A log file of at most MaxLines lines exists; no parser has been made.
ParserInit ==
    /\ handlers = EmptyDict
    /\ log_datetime_stamp = NoStr
    /\ run_directory = NoStr
    /\ json_file_path = NoPath
    /\ json_file_handler = Unset
    /\ stream_handler = Unset
    /\ _initialized = FALSE
    /\ heap = <<>>
    /\ clock = 0
    /\ lastOp = Op("import", "", "", None)
    /\ thr = [t \in Threads |-> Idle]
    /\ files \in {[p \in {LogPath} |-> lines] : lines \in SeqsUpTo(FileLines, MaxLines)}
    /\ attached = <<>>
    /\ logger_level = NoLevels
    /\ lock = {}
    /\ emitters = [t \in Threads |-> NotLogging]
    /\ parser = NoParser
    /\ faults = 0
    /\ LegacyInit

\* A handler of another process appends a formatted line to the file at p.
AppendLine(p, line) ==
    /\ Len(Content(files, p)) < MaxLines
    /\ files' = WriteLine(files, p, line)
    /\ lastOp' = Op("append", p, "", None)
    /\ UNCHANGED <<cls, heap, clock, thr, attached, logger_level, legacy, lock, emitters, parser, faults>>

\* A parser is made for a log file and loaded, again and again, while lines
\* are appended to the file between the loads.
ParserNext ==
    \/ \E p \in {LogPath, TextPath} : JSONLogParser(p)
    \/ load
    \/ \E line \in FormattedLines :
          lastOp.op \in {"load", "append"} /\ AppendLine(LogPath, line)

ParserSpec == ParserInit /\ [][ParserNext]_vars

\* The text a write of `line` has put into the file so far: the line cut
\* short, without its end.
PartialLine(line) == [kind |-> "partial", line |-> line]

\* The last line of the file at p is one a write is still in progress on.
Writing(fs, p) ==
    Content(fs, p) # <<>> /\ Content(fs, p)[Len(Content(fs, p))].kind = "partial"

\* stream.write(msg + terminator) of a handler of another thread has written
\* the first part of a formatted line to the file at p.
BeginWrite(p, line) ==
    /\ ~Writing(files, p)
    /\ Len(Content(files, p)) < MaxLines
    /\ files' = WriteLine(files, p, PartialLine(line))
    /\ lastOp' = Op("write", p, "", None)
    /\ UNCHANGED <<cls, heap, clock, thr, attached, logger_level, legacy, lock, emitters, parser, faults>>

\* The write and the flush that follows it are done: the line is complete.
EndWrite(p) ==
    /\ Writing(files, p)
    /\ files' = [files EXCEPT ![p][Len(files[p])] = @.line]
    /\ lastOp' = Op("flush", p, "", None)
    /\ UNCHANGED <<cls, heap, clock, thr, attached, logger_level, legacy, lock, emitters, parser, faults>>

\* A parser is made for the JSON log file and loaded while a handler of
\* another thread writes lines to the file.
WriteNext ==
    \/ JSONLogParser(LogPath)
    \/ load
    \/ \E line \in FormattedLines : BeginWrite(LogPath, line)
    \/ EndWrite(LogPath)

WriteSpec == ParserInit /\ [][WriteNext]_vars

\* delete_log_directory(directory_name) of utils: the directory of that name
\* in the default log directory is removed with the files in it.
delete_log_directory(directory_name) ==
    /\ files' = [p \in {q \in DOMAIN files :
                            ~(/\ Len(q.dir) >= 2
                              /\ q.dir[1] = LOG_FILE_DEFAULT_DIRECTORY
                              /\ q.dir[2] = directory_name)} |-> files[p]]
    /\ lastOp' = Op("delete_log_directory", directory_name, "", None)
    /\ UNCHANGED <<cls, heap, clock, thr, attached, logger_level, legacy, lock, emitters, parser, faults>>

\* A parser is made for the JSON log file and loaded; the directory of the
\* file may have been deleted by then.
UnreadableSpec ==
    ParserInit /\ [][
        \/ JSONLogParser(LogPath)
        \/ load
        \/ delete_log_directory(create_datestamp(0))
      ]_vars

\* A value for each field other than the timestamp that a raw object may hold.
SampleFields ==
    [level |-> "INFO", message |-> <<1, 1>>, module |-> "test_module", line |-> 1,
     extras |-> X1]

\* The values of the timestamp member of a raw object: an ISO-8601 time with
\* and without a trailing Z, a string that is no time, and a number.
RawTimestamps ==
    {IsoFormatZ(1), [text |-> "isoformat", seconds |-> 1, suffix |-> ""],
     [text |-> "words", seconds |-> 0, suffix |-> ""],
     [text |-> "number", seconds |-> 1, suffix |-> ""]}

\* The raw objects json.loads gives to _normalize: any of the sample fields,
\* with or without a timestamp member.
RawObjects ==
    {[type |-> "dict", items |-> [f \in S |-> SampleFields[f]]] :
        S \in SUBSET DOMAIN SampleFields}
    \cup {[type |-> "dict",
           items |-> [f \in S \cup {"timestamp"} |->
                        IF f = "timestamp" THEN ts ELSE SampleFields[f]]] :
            S \in SUBSET DOMAIN SampleFields, ts \in RawTimestamps}

\* record = self._normalize(raw) for one raw object.
normalize(raw) ==
    /\ lastOp' = Op("_normalize", raw, _normalize(raw).exc, _normalize(raw).record)
    /\ UNCHANGED <<cls, heap, clock, thr, io, attached, logger_level, legacy>>

\* _normalize is called on the raw objects.
NormalizeSpec == Init /\ [][\E raw \in RawObjects : normalize(raw)]_vars

\* ---------------------------------------------------------------- queries
\* The records of three logging calls, one second apart.
QueryEvents ==
    {makeRecord(1, 1, "DEBUG", EmptyDict, 0), makeRecord(1, 2, "INFO", X1, 1),
     makeRecord(1, 3, "ERROR", X1, 2)}

\* A line that holds a JSON object with a timestamp and nothing else.
BareLine == [kind |-> "object", members |-> [timestamp |-> IsoFormatZ(1)]]

\* A line of a log whose writer puts the mapping under "extras", the key
\* _normalize reads.
ExtrasLine ==
    [kind |-> "object",
     members |-> [timestamp |-> IsoFormatZ(1), level |-> "INFO", message |-> <<1, 2>>,
                  extras |-> X1]]

\* The lines of the files the queries are made on.
QueryLines == {JSONFormatter(e) : e \in QueryEvents} \cup {BareLine, ExtrasLine}

\* The arguments of the queries.
QueryLevels == SUBSET {"DEBUG", "INFO", "CRITICAL"}
QueryDates == {NoDate, Aware(0), Aware(1), Aware(2), Naive(1)}
QueryKeys == {"x", "missing"}
\* The defaults given to get_extra: None, and a value no extras mapping holds.
QueryDefaults == {None, 2}

\* The ids given to get_records_by_id: the first and the last possible
\* position, the string "1", and lists with an id twice and out of order.
QueryIds ==
    <<IntId(0), IntId(MaxLines - 1), StrId(1), IdList(<<0, 0>>), IdList(<<MaxLines - 1, 0>>)>>

\* The arguments given to to_dataframe for the parser object p: none, the
\* result of filter_by_level for a level no record has and for "INFO", and all
\* the records of p.
QueryTables(p) ==
    {NoArgument, Given(FilterByLevel(p.records, {"CRITICAL"})),
     Given(FilterByLevel(p.records, {"INFO"})), Given(p.records)}

\* A record without an extras field.
NoExtrasRecord == [message |-> <<1, 1>>]

\* A parser holds what the loop of load makes of a file of at most MaxLines
\* well-formed lines.
QueryInit ==
    /\ handlers = EmptyDict
    /\ log_datetime_stamp = NoStr
    /\ run_directory = NoStr
    /\ json_file_path = NoPath
    /\ json_file_handler = Unset
    /\ stream_handler = Unset
    /\ _initialized = FALSE
    /\ heap = <<>>
    /\ clock = 0
    /\ lastOp = Op("import", "", "", None)
    /\ thr = [t \in Threads |-> Idle]
    /\ files \in {[p \in {LogPath} |-> lines] : lines \in SeqsUpTo(QueryLines, MaxLines)}
    /\ attached = <<>>
    /\ logger_level = NoLevels
    /\ lock = {}
    /\ emitters = [t \in Threads |-> NotLogging]
    /\ parser = LoadLines(NewParser(LogPath), files[LogPath]).parser
    /\ faults = 0
    /\ LegacyInit

\* No query has been made since the parser was made or last loaded.
Unqueried == lastOp.op \in {"import", "load"}

\* load() calls, then one query: the queries leave the parser as it is, so a
\* query made after another finds what the first one found.
QueryNext ==
    \/ \E levels \in QueryLevels : Unqueried /\ filter_by_level(levels)
    \/ \E start_date \in QueryDates : \E end_date \in QueryDates :
          Unqueried /\ filter_by_time(start_date, end_date)
    \/ \E record \in Range(parser.records) \cup {NoExtrasRecord} :
          \E key \in QueryKeys : \E default \in QueryDefaults :
             Unqueried /\ get_extra(record, key, default)
    \/ \E key \in QueryKeys : Unqueried /\ filter_by_extra(key)
    \/ \E n \in DOMAIN QueryIds : Unqueried /\ getRecordsById(QueryIds[n])
    \/ \E n \in 0..MaxLines : Unqueried /\ top_messages(n)
    \/ \E records \in QueryTables(parser) : Unqueried /\ to_dataframe(records)
    \/ Unqueried /\ level_counts
    \/ Unqueried /\ module_counts
    \/ Unqueried /\ func_counts
    \/ load

QuerySpec == QueryInit /\ [][QueryNext]_vars

\* Lines whose extras hold a list under "x", and a line without extras.
AliasLines ==
    {[kind |-> "object",
      members |-> [timestamp |-> IsoFormatZ(1), level |-> l, message |-> <<1, 1>>,
                   extras |-> [k \in {"x"} |-> <<1>>]]] : l \in {"DEBUG", "INFO"}}
    \cup {BareLine}

\* A parser holds what the loop of load makes of a file of at most MaxLines
\* of these lines.
AliasInit ==
    /\ handlers = EmptyDict
    /\ log_datetime_stamp = NoStr
    /\ run_directory = NoStr
    /\ json_file_path = NoPath
    /\ json_file_handler = Unset
    /\ stream_handler = Unset
    /\ _initialized = FALSE
    /\ heap = <<>>
    /\ clock = 0
    /\ lastOp = Op("import", "", "", None)
    /\ thr = [t \in Threads |-> Idle]
    /\ files \in {[p \in {LogPath} |-> lines] : lines \in SeqsUpTo(AliasLines, MaxLines)}
    /\ attached = <<>>
    /\ logger_level = NoLevels
    /\ lock = {}
    /\ emitters = [t \in Threads |-> NotLogging]
    /\ parser = LoadLines(NewParser(LogPath), files[LogPath]).parser
    /\ faults = 0
    /\ LegacyInit

\* The caller changes what the last query returned.  The list of a filter or
\* of top_messages and the dict of a counter are objects the query made
\* (a list comprehension, most_common, dict(...)): appending to them or
\* setting a key changes no attribute of the parser.  The elements of a
\* filter's list are the record objects of self.records: record["level"] =
\* "CRITICAL" on one of them changes that record.  get_extra returns the
\* object stored in the record's extras: value.append(2) changes it there.
ChangeReturned ==
    /\ lastOp.exc = ""
    /\ \/ /\ lastOp.op \in {"filter_by_level", "filter_by_time", "top_messages",
                             "level_counts", "module_counts", "func_counts"}
          /\ parser' = parser
          /\ lastOp' = Op("change", "container", "", None)
       \/ /\ lastOp.op \in {"filter_by_level", "filter_by_time"}
          /\ \E i \in DOMAIN parser.records :
                /\ parser.records[i] \in Range(lastOp.ret)
                /\ parser' = [parser EXCEPT !.records[i]["level"] = "CRITICAL"]
          /\ lastOp' = Op("change", "record", "", None)
       \/ /\ lastOp.op = "get_extra"
          /\ \E i \in DOMAIN parser.records :
                /\ parser.records[i] = lastOp.arg[1]
                /\ lastOp.arg[2] \in DOMAIN parser.records[i]["extras"]
                /\ Len(parser.records[i]["extras"][lastOp.arg[2]]) < 2
                /\ parser' = [parser EXCEPT
                                 !.records[i]["extras"][lastOp.arg[2]] = Append(@, 2)]
          /\ lastOp' = Op("change", "value", "", None)
    /\ UNCHANGED <<cls, heap, clock, thr, files, attached, logger_level, legacy, lock, emitters, faults>>

\* Queries on the loaded records; the caller changes what a query returned
\* before the next query.
AliasSpec ==
    AliasInit /\ [][
        \/ \E levels \in QueryLevels : lastOp.op \in {"import", "change"} /\ filter_by_level(levels)
        \/ lastOp.op \in {"import", "change"} /\ filter_by_time(NoDate, NoDate)
        \/ \E i \in DOMAIN parser.records : \E key \in QueryKeys :
              lastOp.op \in {"import", "change"} /\ get_extra(parser.records[i], key, None)
        \/ lastOp.op \in {"import", "change"} /\ top_messages(MaxLines)
        \/ lastOp.op \in {"import", "change"} /\ level_counts
        \/ lastOp.op \in {"import", "change"} /\ module_counts
        \/ lastOp.op \in {"import", "change"} /\ func_counts
        \/ ChangeReturned
      ]_vars

\* ---------------------------------------------------------------- logger.Logger
\* compose_global_run_id(run_name): f"{create_log_datetime_stamp()}_{run_name}"
compose_global_run_id(run_name, now) == <<create_log_datetime_stamp(now), run_name>>

\* Logger.__init__(self, name, ...) on the instance object: it binds name and
\* a new, empty handlers dict, and leaves the logger __new__ has bound.
__init__(object, name) == [logger |-> object.logger, name |-> name, handlers |-> EmptyDict]

\* Logger(name, run_name=run_name): __new__ returns the instance stored under
\* name, or makes one on logging.getLogger(name), composes the run id when it
\* is the first instance, and stores it; __new__ has returned an instance of
\* the class, so __init__ is then called on it, new or not.
LoggerNew(name, run_name) ==
    LET known == name \in DOMAIN Logger._instances
        self  == IF known THEN Logger._instances[name] ELSE Len(Logger.objects) + 1
        made  == IF known THEN Logger.objects
                 ELSE Append(Logger.objects, [logger |-> name])
    IN  /\ Logger' =
              [_instances |-> IF known THEN Logger._instances
                              ELSE (name :> self) @@ Logger._instances,
               _run_id    |-> IF Logger._instances = EmptyDict
                              THEN compose_global_run_id(run_name, clock)
                              ELSE Logger._run_id,
               objects    |-> [i \in DOMAIN made |->
                                 IF i = self THEN __init__(made[i], name) ELSE made[i]]]
        /\ lastOp' = Op("Logger", <<name, run_name>>, "", self)
        /\ UNCHANGED <<cls, heap, clock, thr, io, attached, logger_level,
                       LoggingHandlerController, logger_handlers>>

\* Logger.LOG_FILE_DEFAULT_DIRECTORY, the default of log_file_default_dir.
Logger_LOG_FILE_DEFAULT_DIRECTORY == "data\\logs"

\* os.path.join(run_id_dir, f"{run_id}_{handler_name}.log") with the run
\* directory of _create_run_id_dir: <default dir>/<datestamp>/<run id>.
LoggerFilePath(run_id, handler_name, now) ==
    [dir |-> <<Logger_LOG_FILE_DEFAULT_DIRECTORY, create_datestamp(now), run_id>>,
     stamp |-> run_id, name |-> handler_name, ext |-> ".log"]

\* self.logger.warn(...) of a logger without a level of its own, root at
\* WARNING: every handler of the logger writes the line of the record.
RECURSIVE CallHandlers(_, _, _)
CallHandlers(fs, hs, record) ==
    IF hs = <<>> THEN fs
    ELSE CallHandlers(WriteLine(fs, Target(Head(hs)), TextFormatter(record)), Tail(hs), record)

\* The methods add_console_handler (kind = "stream") and add_file_handler
\* (kind = "file") of the Logger instance self.  A name the handlers dict of
\* the instance holds gives a warning through the logger and nothing else;
\* otherwise the handler is made, stored under the name and added to the
\* logger.
LoggerAddHandler(self, handler_name, kind) ==
    LET object == Logger.objects[self]
        h      == Len(heap) + 1
        record == [levelname |-> "WARNING", name |-> object.name,
                   msg |-> <<"already exists", handler_name>>]
    IN  /\ IF handler_name \in DOMAIN object.handlers
           THEN /\ \A a \in Range(logger_handlers[object.logger]) :
                      Len(Content(files, Target(a))) < MaxEvents
                /\ files' = CallHandlers(files, logger_handlers[object.logger], record)
                /\ UNCHANGED <<heap, Logger, logger_handlers>>
           ELSE /\ Len(heap) < MaxHandlers
                /\ heap' = Append(heap,
                      IF kind = "stream" THEN StreamHandler
                      ELSE FileHandler("file",
                               LoggerFilePath(Logger._run_id, handler_name, clock)))
                /\ files' = IF kind = "stream" THEN files
                            ELSE OpenFile(files,
                                     LoggerFilePath(Logger._run_id, handler_name, clock), "a")
                /\ Logger' = [Logger EXCEPT
                                 !.objects[self].handlers = (handler_name :> h) @@ @]
                /\ logger_handlers' =
                      [logger_handlers EXCEPT ![object.logger] = addHandler(@, h)]
        /\ lastOp' = Op(IF kind = "stream" THEN "add_console_handler" ELSE "add_file_handler",
                        <<self, handler_name>>, "", None)
        /\ UNCHANGED <<cls, clock, thr, lock, emitters, parser, faults, attached,
                       logger_level, LoggingHandlerController>>

\* The values of run_name given to Logger(...).
LoggerRunNames == {"", "test"}

\* Logger instances are made, again and again under the same names, and a
\* console handler "console" and a file handler "file" are added to them.
LoggerSpec ==
    Init /\ [][
        \/ \E name \in LoggerNames : \E run_name \in LoggerRunNames : LoggerNew(name, run_name)
        \/ \E self \in DOMAIN Logger.objects : LoggerAddHandler(self, "console", "stream")
        \/ \E self \in DOMAIN Logger.objects : LoggerAddHandler(self, "file", "file")
      ]_vars

\* ---------------------------------------------------------------- logger_configs.LoggingHandlerController
\* Values of the run_name argument of LoggingHandlerController(...): the
\* default "main" of configure_logger and further run names.
LegacyRunNames == {"main", "thread_2", "thread_3"}

\* if run_name not in cls._run_names, with the test left out
IsNewRunName_always(run_names, run_name) == TRUE

\* if run_name not in cls._run_names, the test that opens __init__
IsNewRunName(run_names, run_name) == run_name \notin DOMAIN run_names

\* LoggingHandlerController(run_name, text_formatter, log_directory): __new__
\* followed by __init__.  __new__ sets the class up when _initialized is
\* False (the stamps from the clock, the run directory under log_directory,
\* the JSON path and its FileHandler, the StreamHandler) and makes the
\* instance; __init__ makes the readable path and its FileHandler for a run
\* name _run_names does not hold, stores them under the run name, and binds
\* run_name and instance_run_info = cls._run_names[run_name] on the instance.
\* Handler objects go on heap; the formatter plays no part in what is
\* stored.
LoggingHandlerControllerNew(run_name, log_directory) ==
    LET C      == LoggingHandlerController
        first  == C._initialized = FALSE
        fresh  == IsNewRunName(C._run_names, run_name)
        stamp  == IF first THEN create_log_datetime_stamp(clock) ELSE C._log_datetime_stamp
        daily  == IF first THEN create_datestamp(clock) ELSE C._daily_log_stamp
        dir    == IF first THEN <<log_directory, daily, stamp>> ELSE C._run_directory
        jpath  == IF first THEN JsonFilePath(dir, stamp) ELSE C._json_file_path
        heap1  == IF first THEN heap \o <<FileHandler("json", jpath), StreamHandler>>
                  ELSE heap
        jh     == IF first THEN Len(heap) + 1 ELSE C._json_file_handler
        sh     == IF first THEN Len(heap) + 2 ELSE C._stream_handler
        rpath  == ReadableFilePath(dir, stamp, run_name)
        heap2  == IF fresh THEN Append(heap1, FileHandler("file", rpath)) ELSE heap1
        names  == IF fresh
                  THEN (run_name :> [path |-> rpath, handler |-> Len(heap2)]) @@ C._run_names
                  ELSE C._run_names
        self   == [run_name |-> run_name, instance_run_info |-> names[run_name]]
    IN  /\ Len(C.instances) < MaxInstances
        /\ Len(heap2) <= MaxHandlers
        /\ heap' = heap2
        /\ LoggingHandlerController' =
              [_run_names |-> names, _daily_log_stamp |-> daily,
               _log_datetime_stamp |-> stamp, _run_directory |-> dir,
               _json_file_path |-> jpath, _json_file_handler |-> jh,
               _stream_handler |-> sh, _initialized |-> TRUE,
               instances |-> Append(C.instances, self)]
        /\ lastOp' = Op("LoggingHandlerController", <<run_name, log_directory>>, "",
                        Len(C.instances) + 1)
        /\ UNCHANGED <<cls, clock, thr, io, attached, logger_level, Logger, logger_handlers>>

\* Controllers are made, for run names old and new and under either log
\* directory, while the clock runs.
LegacySpec ==
    Init /\ [][
        \/ Tick
        \/ \E run_name \in LegacyRunNames : \E log_directory \in LogDirs :
              LoggingHandlerControllerNew(run_name, log_directory)
      ]_vars

\* ================================================================ properties
\* The run context: the three attributes that locate the files of a run.
RunContext == <<run_directory, log_datetime_stamp, json_file_path>>

\* The handler objects that hold a file open.
OpenFiles == {h \in DOMAIN heap : heap[h].open /\ heap[h].kind # "stream"}

\* C1: once add_file_handler(name) has registered a handler, the entry of name
\* holds the object that add created and keeps it through every step other
\* than remove_handler(name) and _reset; get_handler(name) returns that object.
C1_GetReturnsRegistered ==
    [][/\ \A n \in RunNames \ DOMAIN handlers :
            (lastOp'.arg = n /\ add_file_handler(n)) =>
                /\ n \in DOMAIN handlers'
                /\ handlers'[n] = Len(heap')
                /\ heap'[Len(heap')] =
                       FileHandler("file", ReadableFilePath(run_directory, log_datetime_stamp, n))
       /\ \A n \in DOMAIN handlers :
            \/ /\ n \in DOMAIN handlers'
               /\ handlers'[n] = handlers[n]
               /\ (lastOp'.arg = n /\ get_handler(n)) =>
                      (lastOp'.exc = "" /\ lastOp'.ret = handlers[n])
            \/ remove_handler(n)
            \/ _reset
      ]_vars

\* C1 witness: after set-up and add_file_handler("file_2"), "main" has been
\* removed and get_handler("file_2") has returned the registered object.
C1_Witness ==
    /\ _initialized
    /\ "main" \notin DOMAIN handlers
    /\ "file_2" \in DOMAIN handlers
    /\ lastOp = Op("get_handler", "file_2", "", handlers["file_2"])

\* C2: add_file_handler(name) for a registered name raises KeyError and leaves
\* the dict, the run context and the result of get_handler(name) unchanged.
C2_DuplicateAddRejected ==
    [][\A n \in DOMAIN handlers \cap RunNames :
          (lastOp'.arg = n /\ add_file_handler(n)) =>
              /\ lastOp'.exc = "KeyError"
              /\ DOMAIN handlers' = DOMAIN handlers
              /\ handlers' = handlers
              /\ Lookup(handlers', n) = Lookup(handlers, n)
              /\ RunContext' = RunContext
              /\ _initialized' = _initialized
      ]_vars

\* C2 witness: add_file_handler("main") was rejected on an initialized class.
C2_Witness ==
    /\ _initialized
    /\ "main" \in DOMAIN handlers
    /\ lastOp = Op("add_file_handler", "main", "KeyError", None)

\* C3: after remove_handler(name) of a registered name get_handler(name)
\* raises KeyError; remove_handler of an unregistered name raises KeyError and
\* changes neither the class nor any handler object.
C3_RemoveThenGetFails ==
    [][\A n \in Names :
          (lastOp'.arg = n /\ remove_handler(n)) =>
              IF n \in DOMAIN handlers
              THEN /\ lastOp'.exc = ""
                   /\ Lookup(handlers', n).exc = "KeyError"
                   /\ n \notin DOMAIN handlers'
              ELSE /\ lastOp'.exc = "KeyError"
                   /\ cls' = cls
                   /\ heap' = heap
      ]_vars

\* C3 witness: "main" was removed from an initialized class and
\* get_handler("main") has raised KeyError.
C3_Witness ==
    /\ _initialized
    /\ "main" \notin DOMAIN handlers
    /\ lastOp = Op("get_handler", "main", "KeyError", None)

\* C4: _reset leaves the dict empty, the class uninitialized and the
\* reference to the shared JSON handler cleared, so that get_handler raises
\* KeyError for every name; and the registration that follows a _reset leaves
\* the class initialized on a run context whose handlers are all new objects.
C4_ResetClearsAll ==
    [][/\ _reset =>
              /\ handlers' = EmptyDict
              /\ ~_initialized'
              /\ json_file_handler' \in {None, Unset}
              /\ \A k \in Names : Lookup(handlers', k).exc = "KeyError"
       /\ (/\ lastOp.op = "_reset"
           /\ \/ \E d \in LogDirs : __new__(d)
              \/ \E n \in RunNames : add_file_handler(n)) =>
              /\ _initialized'
              /\ run_directory' # NoStr
              /\ log_datetime_stamp' # NoStr
              /\ {"json", "stream"} \subseteq DOMAIN handlers'
              /\ Range(handlers') \cap DOMAIN heap = {}
      ]_vars

\* C5: _reset never raises, and a _reset made in the state another _reset
\* left (or on a class that was never initialized and holds no handler)
\* changes neither the class nor any handler object.
C5_ResetIdempotent ==
    [][_reset =>
          /\ lastOp'.exc = ""
          /\ (lastOp.op = "_reset" \/ (lastOp.op = "import" /\ handlers = EmptyDict)) =>
                 (cls' = cls /\ heap' = heap)
      ]_vars

\* C5 witness: _reset has run on a class that had been initialized.
C5_Witness ==
    /\ lastOp.op = "_reset"
    /\ json_file_handler = None
    /\ Len(heap) >= 3
    /\ OpenFiles = {}

C7_NoSinkBeforeRunContext ==
    (handlers # EmptyDict \/ OpenFiles # {}) =>
        (run_directory # NoStr /\ log_datetime_stamp # NoStr)

\* C9: while the class stays initialized run_directory, log_datetime_stamp and
\* json_file_path keep their values, and a HandlerController(...) call on an
\* initialized class creates no handler object and changes no entry.
C9_RunContextImmutable ==
    [][_initialized =>
          /\ _initialized' => RunContext' = RunContext
          /\ \A d \in LogDirs :
                 (lastOp'.arg = d /\ __new__(d)) => (heap' = heap /\ cls' = cls)
      ]_vars

\* C9 witness: the run lives under the default directory and a further
\* controller was constructed with another log_directory.
C9_Witness ==
    /\ _initialized
    /\ run_directory[1] = LOG_FILE_DEFAULT_DIRECTORY
    /\ lastOp = Op("__new__", "other/logs", "", None)

\* C10: no two handler objects hold the same file open.
C10_OneOpenHandlePerFile ==
    \A i, j \in OpenFiles : heap[i].path = heap[j].path => i = j

\* Every thread has left HandlerController(...).
AllDone == \A t \in Threads : thr[t].pc \in {"returned", "raised"}

\* C8: when all threads have finished their first construction, none has
\* failed with KeyError, one JSON handler and one stream handler were created,
\* and the class references the registered ones.
C8_OneRunContext ==
    AllDone =>
        /\ \A t \in Threads : thr[t].pc = "returned"
        /\ Cardinality({h \in DOMAIN heap : heap[h].kind = "json"}) = 1
        /\ Cardinality({h \in DOMAIN heap : heap[h].kind = "stream"}) = 1
        /\ Lookup(handlers, "json").ret = json_file_handler
        /\ Lookup(handlers, "stream").ret = stream_handler

\* The JSON file at path p holds one JSON object per logging call made, the
\* object of each call exactly once.
EveryCallOnce(p) ==
    /\ Len(Content(files, p)) = NumThreads * MaxEvents
    /\ \A t \in Threads : \A j \in 1..MaxEvents :
          Cardinality({i \in DOMAIN Content(files, p) :
                          /\ Content(files, p)[i].kind = "object"
                          /\ Content(files, p)[i].members.message = <<t, j>>}) = 1

\* C11: when K threads have each made M logging calls through the JSON sink,
\* the JSON file holds exactly K*M lines, one whole JSON object per call, none
\* lost or duplicated, and a load() that follows yields exactly K*M records.
C11_ConcurrentEmitsLoad ==
    (AllLogged /\ parser # NoParser /\ lastOp.op = "load") =>
        /\ EveryCallOnce(parser.file_path)
        /\ Len(parser.records) = NumThreads * MaxEvents

\* C12: a write of an event to a sink that remove_handler or _reset has closed
\* fails with an I/O error, and the event is not appended to the sink's file.
C12_WriteAfterCloseFails ==
    [][\A t \in Threads :
          (/\ emitters[t].pc = "emit"
           /\ emitters'[t].pc = "release"
           /\ ~heap[attached[emitters[t].i]].open)
          => /\ emitters'[t].raised = "OSError"
             /\ files' = files
      ]_vars

\* The handlers of the root logger that admit the record of thread t and do
\* not hold its line in their file.
SinksWithoutRecord(t, fs) ==
    {j \in 1..Len(attached) :
        /\ emitters[t].record.levelno >= HandlerLevel(attached[j])
        /\ Format(attached[j], emitters[t].record)
               \notin Range(Content(fs, Target(attached[j])))}

\* C13: when the write of an event to one sink fails, every other sink attached
\* for that event has received and persisted the event when the logging call
\* ends.
C13_WriteFailureIsolated ==
    [][\A t \in Threads :
          (/\ emitters[t].pc \in {"handlers", "release"}
           /\ emitters'[t].pc = "idle"
           /\ emitters[t].failed # {})
          => SinksWithoutRecord(t, files') \subseteq emitters[t].failed
      ]_vars

\* A line load is meant to turn into a record: not blank, a JSON object, with
\* a timestamp _normalize can read.
WellFormed(line) ==
    /\ ~IsBlank(line)
    /\ json_loads(line).exc = ""
    /\ _normalize(json_loads(line).value).exc = ""

\* The parser object after one pass of the loop of load over the well-formed
\* lines, starting from the attributes __init__ binds.
FreshLoad(lines) == LoadLines(NewParser(parser.file_path), SelectSeq(lines, WellFormed)).parser

\* The lines of the file the parser was made for.
ParserFile == Content(files, parser.file_path)

\* C14: load() has replace semantics: after load(), called once or again and
\* again on unchanged file content, the parser holds the record list and the
\* level, module and function counters of the file, each line once; nothing
\* accumulates.
C14_LoadReplaces ==
    (lastOp.op = "load" /\ \A i \in DOMAIN ParserFile : WellFormed(ParserFile[i]))
        => /\ parser.records = FreshLoad(ParserFile).records
           /\ parser._level_counts = FreshLoad(ParserFile)._level_counts
           /\ parser._module_counts = FreshLoad(ParserFile)._module_counts
           /\ parser._func_counts = FreshLoad(ParserFile)._func_counts

\* The record carries the id i.
HasId(record, i) == "id" \in DOMAIN record /\ record["id"] = i

\* C15: when well-formed lines were appended to the file since the last
\* load(), the next load() holds one record per line of the file (the original
\* count plus the appended ones), each line once and in file order, with ids
\* 0..count-1, and the message frequencies count every line once.
C15_ReloadAfterAppend ==
    [][(lastOp.op = "append" /\ load /\ \A i \in DOMAIN ParserFile : WellFormed(ParserFile[i]))
          => /\ Len(parser'.records) = Len(ParserFile)
             /\ \A i \in DOMAIN ParserFile :
                   /\ parser'.records[i]["message"] = ParserFile[i].members.message
                   /\ HasId(parser'.records[i], i - 1)
             /\ MessageCounter(parser'.records) = MessageCounter(FreshLoad(ParserFile).records)
      ]_vars

\* C16: after load() on a file of N well-formed lines, the record at position
\* i of the record list has id i for every 0 <= i < N, and
\* get_records_by_id(i) returns that record.
C16_IdsArePositions ==
    lastOp.op = "load" =>
        \A i \in 1..Len(SelectSeq(ParserFile, WellFormed)) :
            /\ i <= Len(parser.records)
            /\ HasId(parser.records[i], i - 1)
            /\ get_records_by_id(parser, i - 1).ret = parser.records[i]

\* C17: load() on a file with blank or malformed lines (not JSON, not an
\* object, or failing normalization) does not abort: it skips those lines,
\* loads every well-formed line before and after them, and the level, module
\* and function counters count the well-formed lines only.
C17_MalformedLinesSkipped ==
    (lastOp.op = "load" /\ \E i \in DOMAIN ParserFile : ~WellFormed(ParserFile[i]))
        => /\ lastOp.exc = ""
           /\ parser.records = FreshLoad(ParserFile).records
           /\ parser._level_counts = FreshLoad(ParserFile)._level_counts
           /\ parser._module_counts = FreshLoad(ParserFile)._module_counts
           /\ parser._func_counts = FreshLoad(ParserFile)._func_counts

\* The lines JSONFormatter writes for the logging calls of QueryEvents, and
\* the logging call that line i of the parser's file was written for.
EventLines == {JSONFormatter(e) : e \in QueryEvents}
EventOfLine(i) == CHOOSE e \in QueryEvents : JSONFormatter(e) = ParserFile[i]

\* How many of the logging calls behind the lines of the file were made at
\* each level.
EventLevelCounts ==
    [l \in {EventOfLine(i).levelname : i \in DOMAIN ParserFile} |->
        Cardinality({i \in DOMAIN ParserFile : EventOfLine(i).levelname = l})]

\* C18: for a file of lines written by the JSON formatter, the record of each
\* line has the level and the message of its logging call, get_extra(record, k)
\* is E[k] for every key k of the call's extra mapping E, and level_counts()
\* is the per-level count of the calls.
C18_RoundTrip ==
    (\A i \in DOMAIN ParserFile : ParserFile[i] \in EventLines) =>
        /\ Len(parser.records) = Len(ParserFile)
        /\ \A i \in DOMAIN ParserFile :
              /\ parser.records[i]["level"] = EventOfLine(i).levelname
              /\ parser.records[i]["message"] = EventOfLine(i).msg
        /\ \A i \in DOMAIN ParserFile :
              (/\ lastOp.op = "get_extra"
               /\ lastOp.arg[1] = parser.records[i]
               /\ lastOp.arg[2] \in DOMAIN EventOfLine(i).context)
              => lastOp.ret = EventOfLine(i).context[lastOp.arg[2]]
        /\ lastOp.op = "level_counts" => lastOp.ret = EventLevelCounts

\* The sequence ret holds exactly the records at the positions I of the record
\* list, each once, in the order of the list.
IsSelection(ret, I) ==
    /\ Len(ret) = Cardinality(I)
    /\ \A i \in I : ret[Cardinality({k \in I : k <= i})] = parser.records[i]

\* C19: filter_by_level(*levels) returns exactly the loaded records whose
\* level is one of the given levels, each once, in their original order (so
\* the empty list when no record has such a level).
C19_FilterByLevel ==
    lastOp.op = "filter_by_level" =>
        /\ lastOp.exc = ""
        /\ IsSelection(lastOp.ret,
                       {i \in DOMAIN parser.records : parser.records[i]["level"] \in lastOp.arg})

\* filter_by_level("DEBUG", "INFO") on the records of a debug, an error and an
\* info call has returned the first and the third.
C19_Witness ==
    /\ lastOp.op = "filter_by_level"
    /\ lastOp.arg = {"DEBUG", "INFO"}
    /\ Len(parser.records) = 3
    /\ parser.records[2]["level"] = "ERROR"
    /\ Len(lastOp.ret) = 2
    /\ lastOp.ret[1]["level"] = "DEBUG"
    /\ lastOp.ret[2]["level"] = "INFO"

\* C20: filter_by_time(start, end) returns exactly the loaded records r with
\* start <= r.timestamp <= end, in original order; both bounds are inclusive,
\* an omitted bound is unbounded on its side, and start later than end gives
\* the empty list.
C20_FilterByTime ==
    (/\ lastOp.op = "filter_by_time"
     /\ \A d \in Range(lastOp.arg) : d = NoDate \/ d.tzinfo = "UTC")
    => /\ lastOp.exc = ""
       /\ IsSelection(lastOp.ret,
                      {i \in DOMAIN parser.records :
                          /\ lastOp.arg[1] = NoDate
                                \/ lastOp.arg[1].seconds <= parser.records[i]["timestamp"].seconds
                          /\ lastOp.arg[2] = NoDate
                                \/ parser.records[i]["timestamp"].seconds <= lastOp.arg[2].seconds})

\* C21: filter_by_extra(key) returns exactly the loaded records whose extras
\* mapping has the key, whatever the value, each once and in their original
\* order (so the empty list when no record has the key).
C21_FilterByExtra ==
    lastOp.op = "filter_by_extra" =>
        /\ lastOp.exc = ""
        /\ IsSelection(lastOp.ret,
                       {i \in DOMAIN parser.records :
                           \E k \in DOMAIN parser.records[i]["extras"] : k = lastOp.arg})

\* filter_by_extra("x") on three records of which the second has no extras
\* has returned the first and the third.
C21_Witness ==
    /\ lastOp.op = "filter_by_extra"
    /\ lastOp.arg = "x"
    /\ Len(parser.records) = 3
    /\ parser.records[1]["extras"] = X1
    /\ parser.records[2]["extras"] = EmptyDict
    /\ lastOp.ret = <<parser.records[1], parser.records[3]>>

\* C22: get_extra(record, key, default) returns extras[key] when the extras of
\* the record have the key, and default otherwise, also for a record without
\* an extras field; the records of the parser are left as they were.
C22_GetExtra ==
    [][lastOp'.op = "get_extra" =>
          LET record == lastOp'.arg[1]
              key == lastOp'.arg[2]
              default == lastOp'.arg[3]
          IN  /\ lastOp'.exc = ""
              /\ "extras" \notin DOMAIN record => lastOp'.ret = default
              /\ ("extras" \in DOMAIN record /\ key \notin DOMAIN record["extras"])
                    => lastOp'.ret = default
              /\ ("extras" \in DOMAIN record /\ key \in DOMAIN record["extras"])
                    => lastOp'.ret = record["extras"][key]
              /\ parser'.records = parser.records
      ]_vars

\* get_extra(record, "missing", 2) on a loaded record whose extras hold only
\* "x" has returned 2.
C22_Witness ==
    /\ lastOp.op = "get_extra"
    /\ lastOp.arg[1] \in Range(parser.records)
    /\ lastOp.arg[1]["extras"] = X1
    /\ lastOp.arg[2] = "missing"
    /\ lastOp.arg[3] = 2
    /\ lastOp.ret = 2

MessageCount(m) ==
    Cardinality({i \in DOMAIN parser.records : parser.records[i]["message"] = m})
FirstPosition(m) ==
    Min({i \in DOMAIN parser.records : parser.records[i]["message"] = m})

\* The message m comes before the message q in the order of top_messages:
\* more frequent, or as frequent and first seen earlier.
RanksBefore(m, q) ==
    \/ MessageCount(m) > MessageCount(q)
    \/ MessageCount(m) = MessageCount(q) /\ FirstPosition(m) < FirstPosition(q)

\* C24: top_messages(n) returns at most n (message, count) pairs, the count of
\* each being the exact number of loaded records with that message, ordered by
\* descending count with ties in the order of first appearance; a message
\* that is left out ranks after all that are returned.
C24_TopMessages ==
    lastOp.op = "top_messages" =>
        LET ret == lastOp.ret
            messages == {parser.records[i]["message"] : i \in DOMAIN parser.records}
        IN  /\ lastOp.exc = ""
            /\ Len(ret) <= lastOp.arg
            /\ \A k \in DOMAIN ret :
                  /\ ret[k][1] \in messages
                  /\ ret[k][2] = MessageCount(ret[k][1])
            /\ \A j \in DOMAIN ret : \A k \in DOMAIN ret :
                  j < k => RanksBefore(ret[j][1], ret[k][1])
            /\ \A m \in messages \ {ret[k][1] : k \in DOMAIN ret} :
                  /\ Len(ret) = lastOp.arg
                  /\ \A k \in DOMAIN ret : RanksBefore(ret[k][1], m)

\* top_messages(2) on three records, the second and third with the same
\* message, has returned that message with count 2 and then the message of
\* the first record with count 1.
C24_Witness ==
    /\ lastOp.op = "top_messages"
    /\ lastOp.arg = 2
    /\ Len(parser.records) = 3
    /\ parser.records[1]["message"] # parser.records[2]["message"]
    /\ parser.records[2]["message"] = parser.records[3]["message"]
    /\ lastOp.ret = <<<<parser.records[2]["message"], 2>>, <<parser.records[1]["message"], 1>>>>

\* C25: to_dataframe(records) yields exactly one row per record of the given
\* sequence, in order, and one per loaded record only when the argument is
\* left out; a row holds the fields of its record other than extras and every
\* entry of its extras as a column of its own, the columns are the union over
\* the rows, and extras is never a column.
C25_ToDataFrame ==
    lastOp.op = "to_dataframe" =>
        LET supplied == IF lastOp.arg.given THEN lastOp.arg.value ELSE parser.records
            table == lastOp.ret
        IN  /\ lastOp.exc = ""
            /\ Len(table.rows) = Len(supplied)
            /\ \A i \in DOMAIN supplied :
                  /\ \A k \in DOMAIN supplied[i]["extras"] :
                        k \in DOMAIN table.rows[i] /\ table.rows[i][k] = supplied[i]["extras"][k]
                  /\ \A k \in DOMAIN supplied[i] \ ({"extras"} \cup DOMAIN supplied[i]["extras"]) :
                        k \in DOMAIN table.rows[i] /\ table.rows[i][k] = supplied[i][k]
            /\ table.columns = UNION {DOMAIN table.rows[i] : i \in DOMAIN table.rows}
            /\ "extras" \notin table.columns

\* The sum of the counts of a counter.
RECURSIVE Total(_)
Total(counter) ==
    IF DOMAIN counter = {}
    THEN 0
    ELSE LET k == CHOOSE k \in DOMAIN counter : TRUE
         IN  counter[k] + Total([j \in DOMAIN counter \ {k} |-> counter[j]])

\* The mapping counts every value of the field over the record list: its keys
\* are the values that occur, each with the number of records that have it,
\* and the counts sum to the number of records.
CountsField(counts, field) ==
    /\ DOMAIN counts = {parser.records[i][field] : i \in DOMAIN parser.records}
    /\ \A v \in DOMAIN counts :
          counts[v] = Cardinality({i \in DOMAIN parser.records : parser.records[i][field] = v})
    /\ Total(counts) = Len(parser.records)

\* C26: whatever load() calls were made, level_counts(), module_counts() and
\* func_counts() return the occurrence counts of the level, module and function
\* values over the current record list: counts[v] is the number of records
\* with value v, and the counts of each mapping sum to the number of records.
C26_CountersMatchRecords ==
    /\ lastOp.op = "level_counts" => CountsField(lastOp.ret, "level")
    /\ lastOp.op = "module_counts" => CountsField(lastOp.ret, "module")
    /\ lastOp.op = "func_counts" => CountsField(lastOp.ret, "function")

\* module_counts() on three records from two modules has returned 2 for one
\* module and 1 for the other.
C26_Witness ==
    /\ lastOp.op = "module_counts"
    /\ Len(parser.records) = 3
    /\ parser.records[1]["module"] = parser.records[3]["module"]
    /\ parser.records[1]["module"] # parser.records[2]["module"]
    /\ lastOp.ret[parser.records[1]["module"]] = 2
    /\ lastOp.ret[parser.records[2]["module"]] = 1

\* The registered names whose handler writes a readable file.
RegisteredRuns == {r \in DOMAIN handlers : heap[handlers[r]].kind = "file"}

\* C27: the runs share one JSON file and each registered name has a readable
\* file of its own: distinct names have distinct files, every event of every
\* logger whose call has returned is in the JSON file, and no event logged
\* through the logger of one run name is in the readable file of another.
C27_SinksSharedAndSeparate ==
    /\ \A r \in RegisteredRuns : \A q \in RegisteredRuns :
          r # q => heap[handlers[r]].path # heap[handlers[q]].path
    /\ \A t \in Threads :
          (emitters[t].pc = "idle" /\ emitters[t].n > 0)
          => JSONFormatter(emitters[t].record) \in Range(Content(files, json_file_path))
    /\ \A r \in RegisteredRuns \cap DOMAIN LoggerOfRun :
          \A q \in (RegisteredRuns \cap DOMAIN LoggerOfRun) \ {r} :
             \A i \in DOMAIN Content(files, heap[handlers[r]].path) :
                Content(files, heap[handlers[r]].path)[i].name # LoggerOfRun[q]

\* The minimum severity of each kind of sink: console INFO, readable file
\* DEBUG, JSON file DEBUG.
MinimumSeverity == [stream |-> "INFO", file |-> "DEBUG", json |-> "DEBUG"]

\* The sink of handler h holds the line of the record.
Persisted(h, record, fs) == Format(h, record) \in Range(Content(fs, Target(h)))

\* C28: the severities are ordered DEBUG < PERFORMANCE < INFO, and when a
\* logging call ends each sink of the logger holds the event iff the severity
\* of the event is at least the level of the logger and at least the minimum
\* severity of the sink (console INFO, readable file DEBUG, JSON file DEBUG).
C28_SeverityFiltering ==
    [][/\ LevelNo.DEBUG < LevelNo.PERFORMANCE
       /\ LevelNo.PERFORMANCE < LevelNo.INFO
       /\ \A t \in Threads :
             (emitters'[t].pc = "idle" /\ emitters'[t] # emitters[t])
             => \A j \in 1..Len(attached) :
                   Persisted(attached[j], emitters'[t].record, files')
                   <=> /\ emitters'[t].record.levelno
                             >= getEffectiveLevel(emitters'[t].record.name)
                       /\ emitters'[t].record.levelno
                             >= LevelNo[MinimumSeverity[heap[attached[j]].kind]]
      ]_vars

\* A PERFORMANCE call made while the logger was at DEBUG has ended with its
\* event in the readable file and in the JSON file and not on the console,
\* and a PERFORMANCE call made after the level was raised to INFO has ended
\* with its event in no sink.
C28_Witness ==
    /\ emitters[MainThread].pc = "idle"
    /\ emitters[MainThread].n = 2
    /\ emitters[MainThread].record.levelname = "PERFORMANCE"
    /\ getEffectiveLevel(LoggerOfRun["main"]) = LevelNo.INFO
    /\ \A j \in 1..Len(attached) : ~Persisted(attached[j], emitters[MainThread].record, files)
    /\ \E i \in DOMAIN Content(files, json_file_path) :
          /\ Content(files, json_file_path)[i].members.level = "PERFORMANCE"
          /\ Content(files, json_file_path)[i].members.message = <<MainThread, 1>>
    /\ \E i \in DOMAIN Content(files, heap[handlers["main"]].path) :
          /\ Content(files, heap[handlers["main"]].path)[i].levelname = "PERFORMANCE"
    /\ Content(files, StdErr) = <<>>

\* C29: a failure to make a directory or a file is fatal for that sink only.
\* An add_file_handler(name) that fails leaves the entries of the registry and
\* the run context as they were; a set-up that fails part-way does not leave
\* "json" or "stream" registered on a class that is not initialized, and the
\* next HandlerController(...) in which nothing fails succeeds.
C29_SetupFailureContained ==
    [][/\ (lastOp'.op = "add_file_handler" /\ lastOp'.exc = "OSError")
             => (handlers' = handlers /\ RunContext' = RunContext)
       /\ (lastOp'.op = "__new__" /\ lastOp'.exc = "OSError" /\ ~_initialized')
             => ("json" \notin DOMAIN handlers' /\ "stream" \notin DOMAIN handlers')
       /\ (lastOp.op = "__new__" /\ lastOp.exc = "OSError"
            /\ \E d \in LogDirs : __new__(d))
             => (lastOp'.exc = "" /\ _initialized')
      ]_vars

\* C30: in every initialized state get_handler("json") returns the handler that
\* json_file_handler references and get_handler("stream") the one that
\* stream_handler references, and both handlers are open, after any sequence of
\* add_file_handler, get_handler and remove_handler.
C30_CoreHandlersRegistered ==
    _initialized =>
        /\ Lookup(handlers, "json") = [exc |-> "", ret |-> json_file_handler]
        /\ Lookup(handlers, "stream") = [exc |-> "", ret |-> stream_handler]
        /\ heap[json_file_handler].open
        /\ heap[stream_handler].open

\* C32: a remove_handler(name) that succeeds closes the handler registered
\* under name and deletes the entry, and changes nothing else: every other
\* entry keeps its handler object, that object is as it was (open when it was
\* open), and the run context is unchanged.
C32_RemoveFrame ==
    [][\A n \in Names :
          (lastOp'.arg = n /\ n \in DOMAIN handlers /\ remove_handler(n)) =>
              /\ lastOp'.exc = ""
              /\ ~heap'[handlers[n]].open
              /\ DOMAIN handlers' = DOMAIN handlers \ {n}
              /\ \A m \in DOMAIN handlers' :
                    /\ handlers'[m] = handlers[m]
                    /\ heap'[handlers'[m]] = heap[handlers[m]]
              /\ Len(heap') = Len(heap)
              /\ RunContext' = RunContext
              /\ _initialized' = _initialized
      ]_vars

\* A run name was removed while "main", "json" and "stream" stay registered
\* on open handlers.
C32_Witness ==
    /\ lastOp = Op("remove_handler", "file_2", "", None)
    /\ \A m \in {"main", "json", "stream"} :
          m \in DOMAIN handlers /\ heap[handlers[m]].open
    /\ \E h \in DOMAIN heap : ~heap[h].open /\ heap[h].path.name = "file_2"

\* The files a step appends a line to.
Written == {p \in DOMAIN files' : Content(files', p) # Content(files, p)}

\* C33: after _reset followed by a new initialization the sinks the reset
\* released receive no further write: an event logged on the initialized class
\* is appended to files of the current run directory (or written to the
\* console) only, never to a file of an earlier run context.
C33_NoWriteToReleasedSink ==
    [][_initialized => \A p \in Written : p = StdErr \/ p.dir = run_directory]_vars

\* The lines of the parser's file before the one a write is in progress on.
CompleteLines == SubSeq(ParserFile, 1, Len(ParserFile) - 1)

\* C34: a load() that runs while a write to the same file is in progress and
\* finds the partly written last line treats that line as a malformed line to
\* skip: the load ends without an exception and the parser holds exactly the
\* records of the complete lines before it.
C34_PartialLineSkipped ==
    [][(/\ load
        /\ Writing(files, parser.file_path)
        /\ \A i \in DOMAIN CompleteLines : WellFormed(CompleteLines[i]))
          => /\ lastOp'.exc = ""
             /\ parser'.records = FreshLoad(CompleteLines).records
      ]_vars

\* The exceptions _normalize raises for a timestamp it cannot read.
ParseError == {"KeyError", "ValueError", "AttributeError"}

\* C35: _normalize of a raw object whose timestamp is missing or is not a
\* string that holds an ISO-8601 time raises a parse error and gives no
\* record; _normalize of an object whose timestamp is an ISO-8601 time with a
\* trailing Z succeeds, the time read being that time of day in UTC.
C35_TimestampRequired ==
    lastOp.op = "_normalize" =>
        LET items == lastOp.arg.items
        IN  /\ ("timestamp" \notin DOMAIN items \/ items["timestamp"].text # "isoformat")
                 => (lastOp.exc \in ParseError /\ lastOp.ret = None)
            /\ ("timestamp" \in DOMAIN items /\ items["timestamp"] = IsoFormatZ(1))
                 => /\ lastOp.exc = ""
                    /\ lastOp.ret["timestamp"] = Aware(1)

\* _normalize has read the timestamp of an object that holds nothing else.
C35_Witness ==
    /\ lastOp.op = "_normalize"
    /\ lastOp.exc = ""
    /\ DOMAIN lastOp.arg.items = {"timestamp"}
    /\ lastOp.arg.items["timestamp"].suffix = "Z"

\* The default _normalize gives to an absent field.
DefaultOf(f) == IF f = "extras" THEN EmptyDict ELSE IF f = "message" THEN NoStr ELSE ""

\* C36: every record _normalize produces carries every canonical field: a
\* field present in the raw object keeps its raw value, an absent field other
\* than the timestamp is the empty string, absent extras are the empty mapping.
C36_CanonicalFields ==
    (lastOp.op = "_normalize" /\ lastOp.exc = "") =>
        /\ DOMAIN lastOp.ret = Range(CORE_FIELDS)
        /\ \A f \in Range(CORE_FIELDS) \ {"timestamp"} :
              IF f \in DOMAIN lastOp.arg.items
              THEN lastOp.ret[f] = lastOp.arg.items[f]
              ELSE lastOp.ret[f] = DefaultOf(f)

\* _normalize has produced a record for an object that holds a level and a
\* timestamp and no extras.
C36_Witness ==
    /\ lastOp.op = "_normalize"
    /\ lastOp.exc = ""
    /\ DOMAIN lastOp.arg.items = {"timestamp", "level"}
    /\ lastOp.ret["level"] = "INFO"
    /\ lastOp.ret["extras"] = EmptyDict

\* C37: the queries are read-only: filter_by_level, filter_by_time, get_extra,
\* top_messages, level_counts, module_counts and func_counts leave the record
\* list and the counters as they were, and a change the caller makes to a
\* mapping or a list a query returned leaves them as they were too, so that a
\* later query returns what it returned before.
C37_QueriesReadOnly ==
    [][lastOp'.op \in {"filter_by_level", "filter_by_time", "get_extra", "top_messages",
                       "level_counts", "module_counts", "func_counts", "change"}
          => parser' = parser]_vars

\* The exceptions open() raises for a file that is missing or may not be read.
IOFailure == {"FileNotFoundError", "PermissionError"}

\* C38: load() on a file that cannot be read (here: a file that is missing)
\* fails as a whole with an I/O failure and leaves the record list and the
\* counters loaded before as they were.
C38_UnreadableFileFails ==
    [][(load /\ parser.file_path \notin DOMAIN files)
          => (lastOp'.exc \in IOFailure /\ parser' = parser)]_vars

\* The readable file of run_name in the run directory of the class.
FileOfRun(run_name) == ReadableFilePath(run_directory, log_datetime_stamp, run_name)

\* C39: after remove_handler(name), add_file_handler(name) with the same name
\* succeeds again: it registers a new open handler on the same file
\* <stamp>_<name>.log of the run directory, opened for appending, so that the
\* lines written before the removal are still in the file.
C39_ReaddAfterRemove ==
    [][(/\ _initialized
        /\ "main" \notin DOMAIN handlers
        /\ \E h \in DOMAIN heap : heap[h].path = FileOfRun("main")
        /\ add_file_handler("main"))
          => /\ lastOp'.exc = ""
             /\ "main" \in DOMAIN handlers'
             /\ handlers'["main"] \notin DOMAIN heap
             /\ heap'[handlers'["main"]].open
             /\ heap'[handlers'["main"]].path = FileOfRun("main")
             /\ RunContext' = RunContext
             /\ Content(files', FileOfRun("main")) = Content(files, FileOfRun("main"))
      ]_vars

\* "main" was added again after its removal and the file of the run still
\* holds a line written before.
C39_Witness ==
    /\ lastOp = Op("add_file_handler", "main", "", None)
    /\ \E h \in DOMAIN heap : ~heap[h].open /\ heap[h].path = FileOfRun("main")
    /\ heap[handlers["main"]].open
    /\ Content(files, FileOfRun("main")) # <<>>

\* C31: Logger is singleton-like per name.  Logger(name) for a name that
\* exists returns the same instance with the same logger, leaves the run id
\* the first Logger fixed, and keeps the instance's map of handler names; so
\* every handler added to the logger of an instance stays registered under
\* its name, and an add with a name already used adds no second handler.
C31_LoggerSingleton ==
    /\ [][\A name \in LoggerNames : \A run_name \in LoggerRunNames :
             (name \in DOMAIN Logger._instances /\ LoggerNew(name, run_name)) =>
                 /\ lastOp'.ret = Logger._instances[name]
                 /\ Logger'._instances = Logger._instances
                 /\ Len(Logger'.objects) = Len(Logger.objects)
                 /\ Logger'.objects[lastOp'.ret].logger = Logger.objects[lastOp'.ret].logger
                 /\ Logger'._run_id = Logger._run_id
                 /\ Logger'.objects[lastOp'.ret].handlers = Logger.objects[lastOp'.ret].handlers
         ]_vars
    /\ [](\A i \in DOMAIN Logger.objects :
             Len(logger_handlers[Logger.objects[i].logger])
                = Cardinality(DOMAIN Logger.objects[i].handlers))

\* The readable_file_path and readable_file_handler properties of a
\* controller instance, and the three properties every instance reads from
\* the class.
Readable(self) == <<self.instance_run_info.path, self.instance_run_info.handler>>

Shared(C) == <<C._json_file_path, C._json_file_handler, C._stream_handler>>

\* C40: LoggingHandlerController(run_name, ...) with a run name an earlier
\* instance was made with gives the readable file path and the handler object
\* of that instance and makes no handler; with a new run name it gives a
\* path and a handler object no earlier instance has, the handler object
\* being made by the call; and once a first instance exists, no construction
\* changes the JSON file path, the JSON handler or the stream handler that
\* every instance reads from the class.
C40_LegacySharedHandlers ==
    [][\A run_name \in LegacyRunNames : \A log_directory \in LogDirs :
          LoggingHandlerControllerNew(run_name, log_directory) =>
             LET earlier == LoggingHandlerController.instances
                 self    == LoggingHandlerController'.instances[lastOp'.ret]
             IN  /\ \A i \in DOMAIN earlier :
                       IF earlier[i].run_name = run_name
                       THEN Readable(self) = Readable(earlier[i]) /\ heap' = heap
                       ELSE /\ self.instance_run_info.path # earlier[i].instance_run_info.path
                            /\ self.instance_run_info.handler # earlier[i].instance_run_info.handler
                 /\ (\A i \in DOMAIN earlier : earlier[i].run_name # run_name) =>
                       /\ self.instance_run_info.handler \in DOMAIN heap' \ DOMAIN heap
                       /\ heap'[self.instance_run_info.handler].path = self.instance_run_info.path
                       /\ self.instance_run_info.handler
                             \notin {LoggingHandlerController'._json_file_handler,
                                     LoggingHandlerController'._stream_handler}
                 /\ earlier # <<>> =>
                       Shared(LoggingHandlerController') = Shared(LoggingHandlerController)
                 /\ \A i \in DOMAIN earlier :
                       LoggingHandlerController'.instances[i] = earlier[i]
      ]_vars

\* Three controllers exist: two of one run name with one path and handler, a
\* third of another run name, made under another log directory at a later
\* second, with a path and handler of its own in the run directory of the
\* first.
C40_Witness ==
    /\ Len(LoggingHandlerController.instances) = 3
    /\ clock = MaxClock
    /\ lastOp.op = "LoggingHandlerController"
    /\ \E i, j, k \in DOMAIN LoggingHandlerController.instances :
          LET I == LoggingHandlerController.instances
          IN  /\ i # j
              /\ I[i].run_name = I[j].run_name
              /\ Readable(I[i]) = Readable(I[j])
              /\ I[k].run_name # I[i].run_name
              /\ Readable(I[k])[1] # Readable(I[i])[1]
              /\ Readable(I[k])[2] # Readable(I[i])[2]
              /\ I[k].instance_run_info.path.dir = LoggingHandlerController._run_directory
              /\ LoggingHandlerController._run_directory[1] # lastOp.arg[2]

====
